---------------------------- MODULE Spec2Model ----------------------------
(***************************************************************************)
(* Gesture-Air: the DTW template matcher of the recorder screen            *)
(* (app/gesture.tsx), the ML screen (app/ml.tsx) and the softmax module    *)
(* (modules/gesture-ml.ts).                                                *)
(*                                                                         *)
(* Numbers.  JavaScript numbers are modelled in fixed point: the integer   *)
(* k stands for k / FP.  Two values outside the range of every computed    *)
(* number stand for NaN and +Infinity; the arithmetic operators below      *)
(* propagate them the way IEEE arithmetic does for the cases the code can  *)
(* reach.  `undefined` read from an array is Undef.                        *)
(***************************************************************************)
EXTENDS Integers, Sequences, FiniteSets, TLC

FP == 1000

NaN == -999999999
Inf == 999999999
Undef == -999999998

\* ------------------------------------------------------------------ bounds
MaxLen == 3          \* longest sample sequence drawn as an input
MaxPerLabel == 2     \* most exemplars a label of a drawn template store has
MaxBuf == 2          \* samples after which the sensors deliver no more events
MaxStored == 2       \* exemplars in the store after which nothing more is saved
MaxTimers == 1       \* pending statistics recomputations

\* ------------------------------------------------------------ number kernel
IsNaN(x) == x = NaN \/ x = Undef

\* a / b rounded to nearest, b > 0
RDiv(a, b) == (2 * a + b) \div (2 * b)

Add(a, b) == IF IsNaN(a) \/ IsNaN(b) THEN NaN
             ELSE IF a = Inf \/ b = Inf THEN Inf ELSE a + b

Sub(a, b) == IF IsNaN(a) \/ IsNaN(b) THEN NaN
             ELSE IF a = Inf /\ b = Inf THEN NaN
             ELSE IF a = Inf THEN Inf ELSE a - b

Mul(a, b) == IF IsNaN(a) \/ IsNaN(b) THEN NaN
             ELSE IF a = Inf \/ b = Inf THEN Inf
             ELSE a * (b \div FP) + RDiv(a * (b % FP), FP)

\* a / b for a divisor that is a positive number, NaN or +Infinity
Div(a, b) == IF IsNaN(a) \/ IsNaN(b) THEN NaN
             ELSE IF a = Inf /\ b = Inf THEN NaN
             ELSE IF b = Inf THEN 0
             ELSE IF a = Inf THEN Inf ELSE RDiv(a * FP, b)

\* a / n for a count n >= 1
DivN(a, n) == IF IsNaN(a) THEN NaN ELSE IF a = Inf THEN Inf ELSE RDiv(a, n)

RECURSIVE SqrtSearch(_, _, _)
SqrtSearch(x, lo, hi) ==
  IF lo >= hi THEN lo
  ELSE LET mid == (lo + hi + 1) \div 2
       IN IF mid * mid <= x THEN SqrtSearch(x, mid, hi)
          ELSE SqrtSearch(x, lo, mid - 1)

\* Math.sqrt on a non-negative fixed-point number
Sqrt(a) == IF IsNaN(a) THEN NaN ELSE IF a = Inf THEN Inf
           ELSE SqrtSearch(a * FP, 0, 46000)

\* x || 0 on a number: NaN, undefined and 0 become 0
OrZero(x) == IF IsNaN(x) THEN 0 ELSE x

Min2(a, b) == IF a <= b THEN a ELSE b
Max2(a, b) == IF a >= b THEN a ELSE b

\* ------------------------------------------------------------------ samples
Sample(t, ax, az, gz) ==
  [t |-> t, ax |-> ax, ay |-> 0, az |-> az, gx |-> 0, gy |-> 0, gz |-> gz]

\* the samples sequences are drawn from (whole units; one sample whose ax is
\* not a number, as a parsed template file may hold)
SampleSet == { Sample(0, 0, 0, 0), Sample(0, FP, 0, FP), Sample(0, NaN, FP, 0) }

RECURSIVE SeqsUpTo(_, _)
SeqsUpTo(S, n) ==
  IF n = 0 THEN { <<>> }
  ELSE LET shorter == SeqsUpTo(S, n - 1)
       IN shorter \cup { Append(s, x) : s \in { q \in shorter : Len(q) = n - 1 }, x \in S }

Sequences == SeqsUpTo(SampleSet, MaxLen)

\* ------------------------------------------- recorder screen: DTW (gesture.tsx)
RECURSIVE AxisSum(_, _, _, _)
\* vals.reduce((a, b) => a + b, 0) over vals = seq.map((s) => s[k])
AxisSum(seq, k, i, acc) ==
  IF i > Len(seq) THEN acc ELSE AxisSum(seq, k, i + 1, Add(acc, seq[i][k]))

RECURSIVE AxisSqDevSum(_, _, _, _, _)
\* vals.map((v) => (v - mean) ** 2).reduce((a, b) => a + b, 0)
AxisSqDevSum(seq, k, mean, i, acc) ==
  IF i > Len(seq) THEN acc
  ELSE LET d == Sub(seq[i][k], mean)
       IN AxisSqDevSum(seq, k, mean, i + 1, Add(acc, Mul(d, d)))

StdOf(variance) == LET sd == Sqrt(variance) IN IF sd = 0 THEN FP ELSE sd

\* per-axis { mean, std } of normalizeSequence: mean is `sum / length || 0`
AxisStat(seq, k) ==
  LET mean == OrZero(DivN(AxisSum(seq, k, 1, 0), Len(seq)))
  IN [mean |-> mean,
      std |-> StdOf(DivN(AxisSqDevSum(seq, k, mean, 1, 0), Max2(1, Len(seq))))]

NormSample(s, stats) ==
  [ax |-> Div(Sub(s.ax, stats.ax.mean), stats.ax.std),
   ay |-> Div(Sub(s.ay, stats.ay.mean), stats.ay.std),
   az |-> Div(Sub(s.az, stats.az.mean), stats.az.std),
   gx |-> Div(Sub(s.gx, stats.gx.mean), stats.gx.std),
   gy |-> Div(Sub(s.gy, stats.gy.mean), stats.gy.std),
   gz |-> Div(Sub(s.gz, stats.gz.mean), stats.gz.std)]

RECURSIVE NormMap(_, _, _, _)
\* seq.map((s) => out) of the normalisers
NormMap(seq, stats, i, out) ==
  IF i > Len(seq) THEN out
  ELSE NormMap(seq, stats, i + 1, Append(out, NormSample(seq[i], stats)))

normalizeSequence(seq) ==
  IF Len(seq) = 0 THEN seq
  ELSE NormMap(seq, [ax |-> AxisStat(seq, "ax"), ay |-> AxisStat(seq, "ay"),
                     az |-> AxisStat(seq, "az"), gx |-> AxisStat(seq, "gx"),
                     gy |-> AxisStat(seq, "gy"), gz |-> AxisStat(seq, "gz")], 1, <<>>)

SqDiff(x, y) == LET d == OrZero(x) - OrZero(y) IN RDiv(d * d, FP)

sampleDistance(a, b) ==
  Sqrt(SqDiff(a.ax, b.ax) + SqDiff(a.ay, b.ay) + SqDiff(a.az, b.az)
       + SqDiff(a.gx, b.gx) + SqDiff(a.gy, b.gy) + SqDiff(a.gz, b.gz))

\* the (n+1) x (m+1) matrix after the two nested loops, filled cell by cell in
\* row-major order; cell k of the loop is (i, j) = (1 + k \div m, 1 + k % m)
RECURSIVE FillDtw(_, _, _, _)
FillDtw(dtw, A, B, k) ==
  IF k >= Len(A) * Len(B) THEN dtw
  ELSE LET i == 1 + (k \div Len(B))
           j == 1 + (k % Len(B))
       IN FillDtw([dtw EXCEPT ![i][j] =
                     Add(sampleDistance(A[i], B[j]),
                         Min2(dtw[i - 1][j], Min2(dtw[i][j - 1], dtw[i - 1][j - 1])))],
                  A, B, k + 1)

InitDtw(n, m) == [i \in 0..n |-> [j \in 0..m |-> IF i = 0 /\ j = 0 THEN 0 ELSE Inf]]

RECURSIVE StripT(_, _, _)
StripT(seq, i, out) ==
  IF i > Len(seq) THEN out
  ELSE StripT(seq, i + 1, Append(out, [ax |-> seq[i].ax, ay |-> seq[i].ay, az |-> seq[i].az,
                                       gx |-> seq[i].gx, gy |-> seq[i].gy, gz |-> seq[i].gz]))

\* a variant that normalises only the first sequence
dtwDistance_oneSided(seqA, seqB) ==
  LET n == Len(seqA)
      m == Len(seqB)
  IN IF n = 0 \/ m = 0 THEN Inf
     ELSE DivN(FillDtw(InitDtw(n, m), normalizeSequence(seqA), StripT(seqB, 1, <<>>), 0)[n][m],
               n + m)

\* a variant that divides by the longer length
dtwDistance_maxLen(seqA, seqB) ==
  LET n == Len(seqA)
      m == Len(seqB)
  IN IF n = 0 \/ m = 0 THEN Inf
     ELSE DivN(FillDtw(InitDtw(n, m), normalizeSequence(seqA), normalizeSequence(seqB), 0)[n][m],
               Max2(n, m))

\* a variant whose matrix starts at dtw[0][0] = 1
dtwDistance_origin(seqA, seqB) ==
  LET n == Len(seqA)
      m == Len(seqB)
  IN IF n = 0 \/ m = 0 THEN Inf
     ELSE DivN(FillDtw([InitDtw(n, m) EXCEPT ![0][0] = FP],
                       normalizeSequence(seqA), normalizeSequence(seqB), 0)[n][m],
               n + m)

dtwDistance(seqA, seqB) ==
  LET n == Len(seqA)
      m == Len(seqB)
  IN IF n = 0 \/ m = 0 THEN Inf
     ELSE DivN(FillDtw(InitDtw(n, m), normalizeSequence(seqA), normalizeSequence(seqB), 0)[n][m],
               n + m)

\* ------------------------------------------------- ML screen: DTW (ml.tsx)
\* per-axis { mean, std } of normalizeSequenceDtw: mean is `sum / (length || 1)`
AxisStatDtw(seq, k) ==
  LET mean == DivN(AxisSum(seq, k, 1, 0), IF Len(seq) = 0 THEN 1 ELSE Len(seq))
  IN [mean |-> mean,
      std |-> StdOf(DivN(AxisSqDevSum(seq, k, mean, 1, 0), Max2(1, Len(seq))))]

normalizeSequenceDtw(seq) ==
  IF Len(seq) = 0 THEN seq
  ELSE NormMap(seq, [ax |-> AxisStatDtw(seq, "ax"), ay |-> AxisStatDtw(seq, "ay"),
                     az |-> AxisStatDtw(seq, "az"), gx |-> AxisStatDtw(seq, "gx"),
                     gy |-> AxisStatDtw(seq, "gy"), gz |-> AxisStatDtw(seq, "gz")], 1, <<>>)

sampleDistanceDtw(a, b) ==
  Sqrt(SqDiff(a.ax, b.ax) + SqDiff(a.ay, b.ay) + SqDiff(a.az, b.az)
       + SqDiff(a.gx, b.gx) + SqDiff(a.gy, b.gy) + SqDiff(a.gz, b.gz))

RECURSIVE FillDtwMl(_, _, _, _)
FillDtwMl(dtw, A, B, k) ==
  IF k >= Len(A) * Len(B) THEN dtw
  ELSE LET i == 1 + (k \div Len(B))
           j == 1 + (k % Len(B))
       IN FillDtwMl([dtw EXCEPT ![i][j] =
                       Add(sampleDistanceDtw(A[i], B[j]),
                           Min2(dtw[i - 1][j], Min2(dtw[i][j - 1], dtw[i - 1][j - 1])))],
                    A, B, k + 1)

dtwDistanceMl(seqA, seqB) ==
  LET n == Len(seqA)
      m == Len(seqB)
  IN IF n = 0 \/ m = 0 THEN Inf
     ELSE DivN(FillDtwMl(InitDtw(n, m), normalizeSequenceDtw(seqA), normalizeSequenceDtw(seqB), 0)[n][m],
               n + m)

\* ------------------------------------- recorder screen: smoothing (gesture.tsx)
RECURSIVE WindowSum(_, _, _, _, _)
\* the per-axis sum over seq.slice(start, end + 1)
WindowSum(seq, k, j, end, acc) ==
  IF j > end THEN acc ELSE WindowSum(seq, k, j + 1, end, Add(acc, seq[j][k]))

RECURSIVE FilterFrom(_, _, _, _)
\* the loop of movingAverageFilter; i is the 1-based index of the sample
FilterFrom(seq, n, i, out) ==
  IF i > Len(seq) THEN out
  ELSE LET start == Max2(1, i - ((n - 1) \div 2))
           end == Min2(Len(seq), i + (n \div 2))
           denom == end - start + 1
       IN FilterFrom(seq, n, i + 1,
            Append(out, [t |-> seq[i].t,
                         ax |-> DivN(WindowSum(seq, "ax", start, end, 0), denom),
                         ay |-> DivN(WindowSum(seq, "ay", start, end, 0), denom),
                         az |-> DivN(WindowSum(seq, "az", start, end, 0), denom),
                         gx |-> DivN(WindowSum(seq, "gx", start, end, 0), denom),
                         gy |-> DivN(WindowSum(seq, "gy", start, end, 0), denom),
                         gz |-> DivN(WindowSum(seq, "gz", start, end, 0), denom)]))

movingAverageFilter(seq, n) ==
  IF Len(seq) = 0 \/ n <= 1 THEN seq ELSE FilterFrom(seq, n, 1, <<>>)

\* ----------------------------- recorder screen: statistics and classification
NoLabel == "<null>"

\* a < b on numbers: false when either is NaN
Lt(a, b) == ~IsNaN(a) /\ ~IsNaN(b) /\ a < b

RECURSIVE SumNums(_, _, _)
\* xs.reduce((a, b) => a + b, 0)
SumNums(xs, i, acc) == IF i > Len(xs) THEN acc ELSE SumNums(xs, i + 1, Add(acc, xs[i]))

RECURSIVE MinNums(_, _, _)
\* Math.min(...xs): +Infinity for no argument
MinNums(xs, i, acc) == IF i > Len(xs) THEN acc ELSE MinNums(xs, i + 1, Min2(acc, xs[i]))

RECURSIVE MaxNums(_, _, _)
\* Math.max(...xs) for numbers that are not NaN
MaxNums(xs, i, acc) == IF i > Len(xs) THEN acc ELSE MaxNums(xs, i + 1, Max2(acc, xs[i]))

\* sum / length: 0 / 0 is NaN
Mean(xs) == IF Len(xs) = 0 THEN NaN ELSE DivN(SumNums(xs, 1, 0), Len(xs))

RECURSIVE PairDistances(_, _, _, _)
\* the loop over i < j of computeLabelStats
PairDistances(exs, i, j, pairs) ==
  IF i > Len(exs) THEN pairs
  ELSE IF j > Len(exs) THEN PairDistances(exs, i + 1, i + 2, pairs)
  ELSE PairDistances(exs, i, j + 1, Append(pairs, dtwDistance(exs[i], exs[j])))

LabelStat(exs) ==
  IF Len(exs) <= 1 THEN [meanIntra |-> 0, maxIntra |-> 0, exemplarCount |-> Len(exs)]
  ELSE LET pairs == PairDistances(exs, 1, 2, <<>>)
       IN [meanIntra |-> Mean(pairs), maxIntra |-> MaxNums(pairs, 1, 0),
           exemplarCount |-> Len(exs)]

\* A Templates object is read as the sequence of its entries in Object.keys
\* order, each [label, exemplars].
ObjLabels(obj) == { obj[i].label : i \in 1..Len(obj) }
ObjGet(obj, label) == obj[CHOOSE i \in 1..Len(obj) : obj[i].label = label].exemplars

\* the stats object built by computeLabelStats
computeLabelStats(currentTemplates) ==
  [l \in ObjLabels(currentTemplates) |-> LabelStat(ObjGet(currentTemplates, l))]

RECURSIVE DistancesTo(_, _, _, _)
\* exemplars.map((ex) => dtwDistance(seq, ex))
DistancesTo(seq, exemplars, i, out) ==
  IF i > Len(exemplars) THEN out
  ELSE DistancesTo(seq, exemplars, i + 1, Append(out, dtwDistance(seq, exemplars[i])))

LabelDetail(seq, exemplars) ==
  LET dists == DistancesTo(seq, exemplars, 1, <<>>)
  IN [exemplarDistances |-> dists, avg |-> Mean(dists), min |-> MinNums(dists, 1, Inf)]

\* a variant that lets a later label win a tie (`avg <= bestScore`)
RECURSIVE ClassifyFrom_lastTie(_, _, _, _)
ClassifyFrom_lastTie(obj, seq, i, best) ==
  IF i > Len(obj) THEN best
  ELSE LET d == LabelDetail(seq, obj[i].exemplars)
           details == Append(best.details, [label |-> obj[i].label, d |-> d])
       IN ClassifyFrom_lastTie(obj, seq, i + 1,
            IF ~IsNaN(d.avg) /\ d.avg <= best.score
            THEN [label |-> obj[i].label, score |-> d.avg, details |-> details]
            ELSE [best EXCEPT !.details = details])

RECURSIVE ClassifyFrom(_, _, _, _)
\* the loop over the labels: best is [label, score, details]
ClassifyFrom(obj, seq, i, best) ==
  IF i > Len(obj) THEN best
  ELSE LET d == LabelDetail(seq, obj[i].exemplars)
           details == Append(best.details, [label |-> obj[i].label, d |-> d])
       IN ClassifyFrom(obj, seq, i + 1,
            IF Lt(d.avg, best.score)
            THEN [label |-> obj[i].label, score |-> d.avg, details |-> details]
            ELSE [best EXCEPT !.details = details])

classifySequenceWithDetails(obj, seq) ==
  IF Len(obj) = 0 THEN [label |-> NoLabel, score |-> Inf, details |-> <<>>]
  ELSE ClassifyFrom(obj, seq, 1, [label |-> NoLabel, score |-> Inf, details |-> <<>>])

\* res.details[label]
DetailOf(res, label) ==
  res.details[CHOOSE i \in 1..Len(res.details) : res.details[i].label = label].d

\* ------------------------------------------ softmax module (gesture-ml.ts)
\* Math.exp and Math.log in fixed point
EInv == RDiv(FP * FP, 2718)
Ln2 == RDiv(693 * FP, 1000)

RECURSIVE Horner(_, _, _)
\* 1 + f (1 + f/2 (1 + f/3 ( ... ))) for -1 <= f <= 0
Horner(f, k, acc) ==
  IF k = 0 THEN acc ELSE Horner(f, k - 1, FP + RDiv(f * acc, k * FP))

RECURSIVE ExpNeg(_)
ExpNeg(x) ==
  IF x < -8 * FP THEN 0
  ELSE IF x < -FP THEN RDiv(ExpNeg(x + FP) * EInv, FP)
  ELSE Horner(x, 6, FP)

\* Math.exp
Exp(x) ==
  IF IsNaN(x) THEN NaN
  ELSE IF x = Inf THEN Inf
  ELSE IF x <= 0 THEN ExpNeg(x)
  ELSE LET e == ExpNeg(-x) IN IF e = 0 THEN Inf ELSE RDiv(FP * FP, e)

RECURSIVE Ln(_)
\* Math.log on 0 < p <= 1
Ln(p) ==
  IF 2 * p <= FP THEN Ln(2 * p) - Ln2
  ELSE LET z == RDiv((p - FP) * FP, p + FP)
           z2 == RDiv(z * z, FP)
           z3 == RDiv(z * z2, FP)
           z5 == RDiv(z3 * z2, FP)
       IN 2 * (z + RDiv(z3, 3) + RDiv(z5, 5))

\* -Math.log(1e-9): what a probability below the resolution contributes
LogFloor == 20723

\* -Math.log(Math.max(p, 1e-9))
LossTerm(p) == IF IsNaN(p) THEN NaN ELSE IF p <= 0 THEN LogFloor ELSE -Ln(p)

\* arr[i] of a JavaScript array (0-based i - 1): undefined past the end, and
\* undefined is NaN in arithmetic
VecAt(arr, i) == IF i >= 1 /\ i <= Len(arr) THEN arr[i] ELSE NaN

RECURSIVE MathMaxFrom(_, _, _)
MathMaxFrom(xs, i, acc) ==
  IF i > Len(xs) THEN acc
  ELSE MathMaxFrom(xs, i + 1,
         IF IsNaN(acc) \/ IsNaN(xs[i]) THEN NaN ELSE Max2(acc, xs[i]))

\* Math.max(...xs) of a non-empty list
MathMax(xs) == MathMaxFrom(xs, 2, IF IsNaN(xs[1]) THEN NaN ELSE xs[1])

RECURSIVE SumFrom(_, _, _)
\* xs.reduce((a, b) => a + b, acc)
SumFrom(xs, i, acc) == IF i > Len(xs) THEN acc ELSE SumFrom(xs, i + 1, Add(acc, xs[i]))

RECURSIVE ExpsFrom(_, _, _, _)
ExpsFrom(logits, max, i, out) ==
  IF i > Len(logits) THEN out
  ELSE ExpsFrom(logits, max, i + 1, Append(out, Exp(Sub(logits[i], max))))

RECURSIVE DivEach(_, _, _, _)
DivEach(xs, d, i, out) ==
  IF i > Len(xs) THEN out ELSE DivEach(xs, d, i + 1, Append(out, Div(xs[i], d)))

softmax(logits) ==
  IF Len(logits) = 0 THEN <<>>
  ELSE LET max == MathMax(logits)
           exps == ExpsFrom(logits, max, 1, <<>>)
           s == SumFrom(exps, 1, 0)
           sum == IF IsNaN(s) \/ s = 0 THEN FP ELSE s
       IN DivEach(exps, sum, 1, <<>>)

\* a thrown Error, as the value of the call
Error(message) == [error |-> message]
IsError(r) == "error" \in DOMAIN r

RECURSIVE LabelsFrom(_, _, _)
\* Array.from(new Set(entries.map((e) => e.label)))
LabelsFrom(entries, i, acc) ==
  IF i > Len(entries) THEN acc
  ELSE LabelsFrom(entries, i + 1,
         IF \E j \in 1..Len(acc) : acc[j] = entries[i].label THEN acc
         ELSE Append(acc, entries[i].label))

\* seq.indexOf(x) + 1: 0 when x is not an element
IndexOf(seq, x) ==
  IF \E i \in 1..Len(seq) : seq[i] = x
  THEN CHOOSE i \in 1..Len(seq) : seq[i] = x /\ \A j \in 1..(i - 1) : seq[j] # x
  ELSE 0

RECURSIVE Zeros(_)
\* new Array(n).fill(0)
Zeros(n) == IF n = 0 THEN <<>> ELSE Append(Zeros(n - 1), 0)

RECURSIVE AddValues(_, _, _)
\* entry.values.forEach((value, idx) => { featureMeans[idx] += value })
AddValues(arr, values, idx) ==
  IF idx > Len(values) THEN arr
  ELSE AddValues(IF idx <= Len(arr) THEN [arr EXCEPT ![idx] = Add(@, values[idx])]
                 ELSE Append(arr, NaN),
                 values, idx + 1)

RECURSIVE SumEntries(_, _, _)
SumEntries(arr, entries, i) ==
  IF i > Len(entries) THEN arr
  ELSE SumEntries(AddValues(arr, entries[i].values, 1), entries, i + 1)

RECURSIVE DivEachN(_, _, _, _)
\* featureMeans.forEach((_, idx) => { featureMeans[idx] /= entries.length })
DivEachN(arr, n, i, out) ==
  IF i > Len(arr) THEN out ELSE DivEachN(arr, n, i + 1, Append(out, DivN(arr[i], n)))

RECURSIVE AddSqDev(_, _, _, _)
\* featureStd[idx] += (value - featureMeans[idx]) ** 2
AddSqDev(arr, values, means, idx) ==
  IF idx > Len(values) THEN arr
  ELSE LET d == Sub(values[idx], VecAt(means, idx))
       IN AddSqDev(IF idx <= Len(arr) THEN [arr EXCEPT ![idx] = Add(@, Mul(d, d))]
                   ELSE Append(arr, NaN),
                   values, means, idx + 1)

RECURSIVE SumSqDev(_, _, _, _)
SumSqDev(arr, entries, means, i) ==
  IF i > Len(entries) THEN arr
  ELSE SumSqDev(AddSqDev(arr, entries[i].values, means, 1), entries, means, i + 1)

RECURSIVE StdFrom(_, _, _, _)
\* featureStd[idx] = Math.sqrt(featureStd[idx] / n); 0 becomes 1
StdFrom(arr, n, i, out) ==
  IF i > Len(arr) THEN out
  ELSE LET s == Sqrt(DivN(arr[i], n))
       IN StdFrom(arr, n, i + 1, Append(out, IF s = 0 THEN FP ELSE s))

RECURSIVE NormalizeValues(_, _, _, _, _)
\* values.map((value, idx) => (value - featureMeans[idx]) / featureStd[idx]),
\* the elements lo..hi of the result
NormalizeValues(values, means, std, lo, hi) ==
  IF lo > hi THEN <<>>
  ELSE IF lo = hi
       THEN <<Div(Sub(values[lo], VecAt(means, lo)), VecAt(std, lo))>>
       ELSE NormalizeValues(values, means, std, lo, (lo + hi) \div 2)
            \o NormalizeValues(values, means, std, (lo + hi) \div 2 + 1, hi)

RECURSIVE NormalizeEntries(_, _, _, _, _)
NormalizeEntries(entries, means, std, i, out) ==
  IF i > Len(entries) THEN out
  ELSE NormalizeEntries(entries, means, std, i + 1,
         Append(out, NormalizeValues(entries[i].values, means, std, 1, Len(entries[i].values))))

RECURSIVE Logit(_, _, _, _, _)
\* w.reduce((sum, weight, featIdx) => sum + weight * row[featIdx], bias) over
\* the weights lo..hi, left to right: the lower half and then the upper half
Logit(w, row, lo, hi, sum) ==
  IF lo > hi THEN sum
  ELSE IF lo = hi THEN Add(sum, Mul(w[lo], VecAt(row, lo)))
  ELSE Logit(w, row, (lo + hi) \div 2 + 1, hi,
             Logit(w, row, lo, (lo + hi) \div 2, sum))

RECURSIVE Logits(_, _, _, _, _)
Logits(weights, biases, row, clsIdx, out) ==
  IF clsIdx > Len(weights) THEN out
  ELSE Logits(weights, biases, row, clsIdx + 1,
         Append(out, Logit(weights[clsIdx], row, 1, Len(weights[clsIdx]),
                           VecAt(biases, clsIdx))))

RECURSIVE ErrorsFrom(_, _, _, _)
\* prob - indicator for every class
ErrorsFrom(probs, labelIndex, clsIdx, out) ==
  IF clsIdx > Len(probs) THEN out
  ELSE ErrorsFrom(probs, labelIndex, clsIdx + 1,
         Append(out, Sub(probs[clsIdx], IF clsIdx = labelIndex THEN FP ELSE 0)))

RECURSIVE ScoreRows(_, _, _, _, _, _, _)
\* the forward pass of one epoch: for every row its errors and its loss term
ScoreRows(weights, biases, normalized, entries, labels, rowIdx, out) ==
  IF rowIdx > Len(normalized) THEN out
  ELSE LET probs == softmax(Logits(weights, biases, normalized[rowIdx], 1, <<>>))
           labelIndex == IndexOf(labels, entries[rowIdx].label)
       IN ScoreRows(weights, biases, normalized, entries, labels, rowIdx + 1,
            Append(out, [err |-> ErrorsFrom(probs, labelIndex, 1, <<>>),
                         loss |-> LossTerm(probs[labelIndex])]))

RECURSIVE GradWAt(_, _, _, _, _, _)
\* gradW[clsIdx][featIdx] after all rows
GradWAt(scored, normalized, clsIdx, featIdx, rowIdx, acc) ==
  IF rowIdx > Len(scored) THEN acc
  ELSE GradWAt(scored, normalized, clsIdx, featIdx, rowIdx + 1,
         Add(acc, Mul(scored[rowIdx].err[clsIdx], VecAt(normalized[rowIdx], featIdx))))

RECURSIVE GradBAt(_, _, _, _)
GradBAt(scored, clsIdx, rowIdx, acc) ==
  IF rowIdx > Len(scored) THEN acc
  ELSE GradBAt(scored, clsIdx, rowIdx + 1, Add(acc, scored[rowIdx].err[clsIdx]))

RECURSIVE LossSum(_, _, _)
LossSum(scored, rowIdx, acc) ==
  IF rowIdx > Len(scored) THEN acc ELSE LossSum(scored, rowIdx + 1, Add(acc, scored[rowIdx].loss))

RECURSIVE UpdateRow(_, _, _, _, _, _, _)
\* weights[clsIdx][featIdx] -= gradW[clsIdx][featIdx] * scale
UpdateRow(w, scored, normalized, clsIdx, scale, featIdx, out) ==
  IF featIdx > Len(w) THEN out
  ELSE UpdateRow(w, scored, normalized, clsIdx, scale, featIdx + 1,
         Append(out, Sub(w[featIdx],
                         Mul(GradWAt(scored, normalized, clsIdx, featIdx, 1, 0), scale))))

RECURSIVE UpdateWeights(_, _, _, _, _, _)
UpdateWeights(weights, scored, normalized, scale, clsIdx, out) ==
  IF clsIdx > Len(weights) THEN out
  ELSE UpdateWeights(weights, scored, normalized, scale, clsIdx + 1,
         Append(out, UpdateRow(weights[clsIdx], scored, normalized, clsIdx, scale, 1, <<>>)))

RECURSIVE UpdateBiases(_, _, _, _, _)
UpdateBiases(biases, scored, scale, clsIdx, out) ==
  IF clsIdx > Len(biases) THEN out
  ELSE UpdateBiases(biases, scored, scale, clsIdx + 1,
         Append(out, Sub(biases[clsIdx], Mul(GradBAt(scored, clsIdx, 1, 0), scale))))

\* a pass that records its mean loss only when that is a number
EpochStep_finiteLoss(m, normalized, entries, labels, learningRate) ==
  LET scored == ScoreRows(m.weights, m.biases, normalized, entries, labels, 1, <<>>)
      scale == DivN(learningRate, Len(entries))
      loss == DivN(LossSum(scored, 1, 0), Len(entries))
  IN [weights |-> UpdateWeights(m.weights, scored, normalized, scale, 1, <<>>),
      biases |-> UpdateBiases(m.biases, scored, scale, 1, <<>>),
      lossHistory |-> IF IsNaN(loss) THEN m.lossHistory ELSE Append(m.lossHistory, loss)]

\* one pass of the epoch loop: m is [weights, biases, lossHistory]
EpochStep(m, normalized, entries, labels, learningRate) ==
  LET scored == ScoreRows(m.weights, m.biases, normalized, entries, labels, 1, <<>>)
      scale == DivN(learningRate, Len(entries))
  IN [weights |-> UpdateWeights(m.weights, scored, normalized, scale, 1, <<>>),
      biases |-> UpdateBiases(m.biases, scored, scale, 1, <<>>),
      lossHistory |-> Append(m.lossHistory, DivN(LossSum(scored, 1, 0), Len(entries)))]

RECURSIVE Epochs(_, _, _, _, _, _)
\* the epoch loop, for (epoch = 0; epoch < epochs; epoch += 1): the passes
\* run one after the other, the first half of them and then the rest
Epochs(m, normalized, entries, labels, learningRate, epochs) ==
  IF epochs <= 0 THEN m
  ELSE IF epochs = 1 THEN EpochStep(m, normalized, entries, labels, learningRate)
  ELSE LET half == Epochs(m, normalized, entries, labels, learningRate, epochs \div 2)
       IN IF Len(half.lossHistory) >= Len(m.lossHistory)
          THEN Epochs(half, normalized, entries, labels, learningRate,
                      epochs - epochs \div 2)
          ELSE half

RECURSIVE ZeroRows(_, _)
ZeroRows(labelCount, featureCount) ==
  IF labelCount = 0 THEN <<>>
  ELSE Append(ZeroRows(labelCount - 1, featureCount), Zeros(featureCount))

\* the labels a dataset must carry at least
MinLabels == 2

\* a variant that accepts a single label
TrainValidation_oneLabel(data) ==
  IF Len(data.entries) = 0 THEN "Cannot train model without any dataset entries"
  ELSE IF "featureNames" \notin DOMAIN data
       THEN "TypeError: Cannot read properties of undefined (reading 'length')"
  ELSE IF Len(LabelsFrom(data.entries, 1, <<>>)) < 1
       THEN "Need at least two labels to train the model"
       ELSE "ok"

\* what stops trainSoftmaxModel before it computes anything: its two checks,
\* and the read of featureNames.length between them
TrainValidation(data) ==
  IF Len(data.entries) = 0 THEN "Cannot train model without any dataset entries"
  ELSE IF "featureNames" \notin DOMAIN data
       THEN "TypeError: Cannot read properties of undefined (reading 'length')"
  ELSE IF Len(LabelsFrom(data.entries, 1, <<>>)) < MinLabels
       THEN "Need at least two labels to train the model"
       ELSE "ok"

trainSoftmaxModel(data, epochs, learningRate) ==
  IF TrainValidation(data) # "ok" THEN Error(TrainValidation(data))
  ELSE
    LET entries == data.entries
        labels == LabelsFrom(entries, 1, <<>>)
        featureCount == Len(data.featureNames)
        labelCount == Len(labels)
        featureMeans == DivEachN(SumEntries(Zeros(featureCount), entries, 1),
                                 Len(entries), 1, <<>>)
        featureStd == StdFrom(SumSqDev(Zeros(featureCount), entries, featureMeans, 1),
                              Len(entries), 1, <<>>)
        normalized == NormalizeEntries(entries, featureMeans, featureStd, 1, <<>>)
        m == Epochs([weights |-> ZeroRows(labelCount, featureCount),
                     biases |-> Zeros(labelCount),
                     lossHistory |-> <<>>],
                    normalized, entries, labels, learningRate, epochs)
    IN [labels |-> labels,
        featureNames |-> data.featureNames,
        featureMeans |-> featureMeans,
        featureStd |-> featureStd,
        weights |-> m.weights,
        biases |-> m.biases,
        trainingSamples |-> Len(entries),
        lossHistory |-> m.lossHistory]

\* labels[-1] and probs[-1]
NoSuchLabel == "<undefined>"

RECURSIVE DistributionFrom(_, _, _, _)
\* labels.map((label, idx) => ({ label, confidence: probs[idx] }))
DistributionFrom(labels, probs, idx, out) ==
  IF idx > Len(labels) THEN out
  ELSE DistributionFrom(labels, probs, idx + 1,
         Append(out, [label |-> labels[idx],
                      confidence |-> IF idx <= Len(probs) THEN probs[idx] ELSE Undef]))

\* the comparator (a, b) => b.confidence - a.confidence is positive: b goes first
GoesBefore(b, a) ==
  LET c == Sub(b.confidence, a.confidence) IN ~IsNaN(c) /\ c > 0

RECURSIVE InsertSorted(_, _, _)
\* stable insertion of x into the sorted prefix
InsertSorted(sorted, x, i) ==
  IF i = 0 \/ ~GoesBefore(x, sorted[i])
  THEN SubSeq(sorted, 1, i) \o <<x>> \o SubSeq(sorted, i + 1, Len(sorted))
  ELSE InsertSorted(sorted, x, i - 1)

RECURSIVE SortDistribution(_, _, _)
SortDistribution(dist, i, sorted) ==
  IF i > Len(dist) THEN sorted
  ELSE SortDistribution(dist, i + 1, InsertSorted(sorted, dist[i], Len(sorted)))

predictFromModel(model, values) ==
  IF Len(model.labels) = 0 THEN Error("Model is empty")
  ELSE
    LET normalized == NormalizeValues(values, model.featureMeans, model.featureStd, 1,
                                      Len(values))
        probs == softmax(Logits(model.weights, model.biases, normalized, 1, <<>>))
        max == IF Len(probs) = 0 THEN NaN ELSE MathMax(probs)
        bestIdx == IF IsNaN(max) THEN 0 ELSE IndexOf(probs, max)
    IN [label |-> IF bestIdx = 0 THEN NoSuchLabel ELSE model.labels[bestIdx],
        confidence |-> IF bestIdx = 0 THEN Undef ELSE probs[bestIdx],
        distribution |-> SortDistribution(DistributionFrom(model.labels, probs, 1, <<>>),
                                          1, <<>>)]

\* ------------------------------------ feature extraction (gesture-ml.ts)
\* Math.abs
Abs(x) == IF IsNaN(x) THEN NaN ELSE IF x = Inf THEN Inf ELSE IF x < 0 THEN -x ELSE x

RECURSIVE SqDevSum(_, _, _, _)
\* values.reduce((acc, v) => acc + (v - mean) ** 2, 0)
SqDevSum(values, mean, i, acc) ==
  IF i > Len(values) THEN acc
  ELSE SqDevSum(values, mean, i + 1,
         Add(acc, Mul(Sub(values[i], mean), Sub(values[i], mean))))

RECURSIVE SqSum(_, _, _)
SqSum(values, i, acc) ==
  IF i > Len(values) THEN acc ELSE SqSum(values, i + 1, Add(acc, Mul(values[i], values[i])))

RECURSIVE AxisLoop(_, _, _)
\* the loop of computeAxisStats: st is [min, max, energy, totalAbsDiff]
AxisLoop(values, i, st) ==
  IF i > Len(values) THEN st
  ELSE LET v == values[i]
       IN AxisLoop(values, i + 1,
            [min |-> IF ~IsNaN(v) /\ ~IsNaN(st.min) /\ v < st.min THEN v ELSE st.min,
             max |-> IF ~IsNaN(v) /\ ~IsNaN(st.max) /\ v > st.max THEN v ELSE st.max,
             energy |-> Add(st.energy, Mul(v, v)),
             totalAbsDiff |-> IF i > 1 THEN Add(st.totalAbsDiff, Abs(Sub(v, values[i - 1])))
                              ELSE st.totalAbsDiff])

computeAxisStats(values) ==
  IF Len(values) = 0
  THEN [mean |-> 0, std |-> 0, min |-> 0, max |-> 0, range |-> 0, energy |-> 0,
        avgAbsDiff |-> 0]
  ELSE LET n == Len(values)
           mean == DivN(SumFrom(values, 1, 0), n)
           variance == DivN(SqDevSum(values, mean, 1, 0), n)
           st == AxisLoop(values, 1, [min |-> values[1], max |-> values[1], energy |-> 0,
                                      totalAbsDiff |-> 0])
       IN [mean |-> mean, std |-> Sqrt(variance), min |-> st.min, max |-> st.max,
           range |-> Sub(st.max, st.min), energy |-> DivN(st.energy, n),
           avgAbsDiff |-> DivN(st.totalAbsDiff, Max2(1, n - 1))]

RECURSIVE MagnitudeFrom(_, _, _)
\* mags[i] = Math.sqrt(sum over the axes of values[axis][i] ** 2)
MagnitudeFrom(values, i, out) ==
  IF i > Len(values[1]) THEN out
  ELSE MagnitudeFrom(values, i + 1,
         Append(out, Sqrt(Add(Add(Mul(values[1][i], values[1][i]),
                                  Mul(values[2][i], values[2][i])),
                              Mul(values[3][i], values[3][i])))))

\* magnitude of three axes
magnitude(values) == MagnitudeFrom(values, 1, <<>>)

statsFromValues(values) ==
  IF Len(values) = 0 THEN [mean |-> 0, std |-> 0, energy |-> 0]
  ELSE LET n == Len(values)
           mean == DivN(SumFrom(values, 1, 0), n)
       IN [mean |-> mean,
           std |-> Sqrt(DivN(SqDevSum(values, mean, 1, 0), n)),
           energy |-> DivN(SqSum(values, 1, 0), n)]

RECURSIVE MlWindowSum(_, _, _, _, _)
MlWindowSum(samples, k, j, end, acc) ==
  IF j > end THEN acc ELSE MlWindowSum(samples, k, j + 1, end, Add(acc, samples[j][k]))

RECURSIVE MovingAverageFrom(_, _, _, _)
\* the loop of movingAverage; i is the 1-based index of the sample
MovingAverageFrom(samples, half, i, filtered) ==
  IF i > Len(samples) THEN filtered
  ELSE LET start == Max2(1, i - half)
           end == Min2(Len(samples), i + half)
           span == end - start + 1
       IN MovingAverageFrom(samples, half, i + 1,
            Append(filtered,
                   [t |-> samples[i].t,
                    ax |-> DivN(MlWindowSum(samples, "ax", start, end, 0), span),
                    ay |-> DivN(MlWindowSum(samples, "ay", start, end, 0), span),
                    az |-> DivN(MlWindowSum(samples, "az", start, end, 0), span),
                    gx |-> DivN(MlWindowSum(samples, "gx", start, end, 0), span),
                    gy |-> DivN(MlWindowSum(samples, "gy", start, end, 0), span),
                    gz |-> DivN(MlWindowSum(samples, "gz", start, end, 0), span)]))

\* a smoothing that looks floor((window - 1) / 2) samples to either side
movingAverage_narrow(samples, window) ==
  IF window <= 1 \/ Len(samples) <= 2 THEN samples
  ELSE MovingAverageFrom(samples, (window - 1) \div 2, 1, <<>>)

movingAverage(samples, window) ==
  IF window <= 1 \/ Len(samples) <= 2 THEN samples
  ELSE MovingAverageFrom(samples, window \div 2, 1, <<>>)

SENSOR_AXES ==
  << [key |-> "ax", label |-> "accel_x"], [key |-> "ay", label |-> "accel_y"],
     [key |-> "az", label |-> "accel_z"], [key |-> "gx", label |-> "gyro_x"],
     [key |-> "gy", label |-> "gyro_y"], [key |-> "gz", label |-> "gyro_z"] >>

statKeys == <<"mean", "std", "min", "max", "range", "energy", "avgAbsDiff">>

RECURSIVE AxisValuesFrom(_, _, _, _)
AxisValuesFrom(samples, key, i, out) ==
  IF i > Len(samples) THEN out
  ELSE AxisValuesFrom(samples, key, i + 1, Append(out, samples[i][key]))

axisValues(samples, key) == AxisValuesFrom(samples, key, 1, <<>>)

RECURSIVE AxisFeatures(_, _, _)
\* what the statKeys.forEach of one axis pushes for the first k keys
AxisFeatures(axis, stats, k) ==
  IF k = 0 THEN [featureNames |-> <<>>, values |-> <<>>]
  ELSE LET f == AxisFeatures(axis, stats, k - 1)
       IN [featureNames |-> Append(f.featureNames, axis.label \o "_" \o statKeys[k]),
           values |-> Append(f.values, stats[statKeys[k]])]

RECURSIVE AllAxisFeatures(_, _)
\* what the SENSOR_AXES.forEach pushes for the first a axes
AllAxisFeatures(samples, a) ==
  IF a = 0 THEN [featureNames |-> <<>>, values |-> <<>>]
  ELSE LET f == AllAxisFeatures(samples, a - 1)
           g == AxisFeatures(SENSOR_AXES[a],
                             computeAxisStats(axisValues(samples, SENSOR_AXES[a].key)),
                             Len(statKeys))
       IN [featureNames |-> f.featureNames \o g.featureNames,
           values |-> f.values \o g.values]

\* timestamps are whole milliseconds; as feature values they are numbers
Num(k) == k * FP

\* an extraction that leaves out the sample rate of an empty sequence
extractFeatureVector_noRate(samples) ==
  LET sampleCount == Len(samples)
      durationMs == IF sampleCount # 0 THEN samples[sampleCount].t - samples[1].t ELSE 0
      axes == AllAxisFeatures(samples, Len(SENSOR_AXES))
      accelStats == statsFromValues(magnitude(<<axisValues(samples, "ax"),
                                                axisValues(samples, "ay"),
                                                axisValues(samples, "az")>>))
      gyroStats == statsFromValues(magnitude(<<axisValues(samples, "gx"),
                                               axisValues(samples, "gy"),
                                               axisValues(samples, "gz")>>))
      sampleRate == IF durationMs > 0
                    THEN Mul(Div(Num(sampleCount), Num(durationMs)), Num(1000))
                    ELSE Num(sampleCount)
  IN [values |-> axes.values \o
                 <<accelStats.mean, accelStats.std, accelStats.energy,
                   gyroStats.mean, gyroStats.std, gyroStats.energy,
                   Num(durationMs), Num(sampleCount)>>
                 \o (IF sampleCount = 0 THEN <<>> ELSE <<sampleRate>>),
      featureNames |-> axes.featureNames \o
                       <<"accel_magnitude_mean", "accel_magnitude_std",
                         "accel_magnitude_energy", "gyro_magnitude_mean",
                         "gyro_magnitude_std", "gyro_magnitude_energy",
                         "duration_ms", "sample_count">>
                       \o (IF sampleCount = 0 THEN <<>> ELSE <<"sample_rate_hz">>),
      sampleCount |-> sampleCount,
      durationMs |-> durationMs]

extractFeatureVector(samples) ==
  LET sampleCount == Len(samples)
      durationMs == IF sampleCount # 0 THEN samples[sampleCount].t - samples[1].t ELSE 0
      axes == AllAxisFeatures(samples, Len(SENSOR_AXES))
      accelStats == statsFromValues(magnitude(<<axisValues(samples, "ax"),
                                                axisValues(samples, "ay"),
                                                axisValues(samples, "az")>>))
      gyroStats == statsFromValues(magnitude(<<axisValues(samples, "gx"),
                                               axisValues(samples, "gy"),
                                               axisValues(samples, "gz")>>))
      sampleRate == IF durationMs > 0
                    THEN Mul(Div(Num(sampleCount), Num(durationMs)), Num(1000))
                    ELSE Num(sampleCount)
  IN [values |-> axes.values \o
                 <<accelStats.mean, accelStats.std, accelStats.energy,
                   gyroStats.mean, gyroStats.std, gyroStats.energy,
                   Num(durationMs), Num(sampleCount), sampleRate>>,
      featureNames |-> axes.featureNames \o
                       <<"accel_magnitude_mean", "accel_magnitude_std",
                         "accel_magnitude_energy", "gyro_magnitude_mean",
                         "gyro_magnitude_std", "gyro_magnitude_energy",
                         "duration_ms", "sample_count", "sample_rate_hz">>,
      sampleCount |-> sampleCount,
      durationMs |-> durationMs]

\* ------------------------------------------- evaluation (gesture-ml.ts)
\* Math.max(1, Math.floor(n * testFraction)), rounding to nearest instead
TestCount_round(n, testFraction) == Max2(1, RDiv(n * testFraction, FP))

\* Math.max(1, Math.floor(n * testFraction))
TestCount(n, testFraction) == Max2(1, (n * testFraction) \div FP)

Swap(arr, i, j) == [arr EXCEPT ![i] = arr[j], ![j] = arr[i]]

RECURSIVE SplitFrom(_, _, _, _)
\* indices.forEach((idx) => testIdx.has(idx) ? test : train), testIdx the set of
\* indices.slice(0, testCount); the split is [test, train], lists of entry indices
SplitFrom(indices, testCount, k, split) ==
  IF k > Len(indices) THEN split
  ELSE SplitFrom(indices, testCount, k + 1,
         IF \E j \in 1..Min2(testCount, Len(indices)) : indices[j] = indices[k]
         THEN [split EXCEPT !.test = Append(@, indices[k])]
         ELSE [split EXCEPT !.train = Append(@, indices[k])])

RECURSIVE EntriesAt(_, _, _, _)
EntriesAt(entries, idxs, k, out) ==
  IF k > Len(idxs) THEN out ELSE EntriesAt(entries, idxs, k + 1, Append(out, entries[idxs[k]]))

\* a variant that counts an entry only when it is predicted correctly
Tally_hitsOnly(perLabel, label, hit) ==
  LET known == \E k \in 1..Len(perLabel) : perLabel[k].label = label
      withLabel == IF known THEN perLabel
                   ELSE Append(perLabel, [label |-> label, correct |-> 0, total |-> 0])
      k == CHOOSE k \in 1..Len(withLabel) : withLabel[k].label = label
  IN [withLabel EXCEPT ![k] = [label |-> label,
                               correct |-> @.correct + (IF hit THEN 1 ELSE 0),
                               total |-> @.total + (IF hit THEN 1 ELSE 0)]]

\* perLabel[label].total += 1 and, on a hit, perLabel[label].correct += 1
Tally(perLabel, label, hit) ==
  LET known == \E k \in 1..Len(perLabel) : perLabel[k].label = label
      withLabel == IF known THEN perLabel
                   ELSE Append(perLabel, [label |-> label, correct |-> 0, total |-> 0])
      k == CHOOSE k \in 1..Len(withLabel) : withLabel[k].label = label
  IN [withLabel EXCEPT ![k] = [label |-> label,
                               correct |-> @.correct + (IF hit THEN 1 ELSE 0),
                               total |-> @.total + 1]]

RECURSIVE TestLoop(_, _, _, _)
\* testEntries.forEach: acc is [perLabel, correct]
TestLoop(model, testEntries, k, acc) ==
  IF k > Len(testEntries) THEN acc
  ELSE LET pred == predictFromModel(model, testEntries[k].values)
           hit == pred.label = testEntries[k].label
       IN TestLoop(model, testEntries, k + 1,
            [perLabel |-> Tally(acc.perLabel, testEntries[k].label, hit),
             correct |-> acc.correct + (IF hit THEN 1 ELSE 0)])

RECURSIVE WithAccuracy(_, _, _)
\* stats.accuracy = stats.total ? stats.correct / stats.total : 0
WithAccuracy(perLabel, k, out) ==
  IF k > Len(perLabel) THEN out
  ELSE WithAccuracy(perLabel, k + 1,
         Append(out, [label |-> perLabel[k].label,
                      correct |-> perLabel[k].correct,
                      total |-> perLabel[k].total,
                      accuracy |-> IF perLabel[k].total # 0
                                   THEN RDiv(perLabel[k].correct * FP, perLabel[k].total)
                                   ELSE 0]))

\* evaluateSoftmaxOnDataset after shuffleInPlace(indices); the value carries
\* the two index lists next to the thrown error or the returned pair
EvaluateShuffled(dataset, indices, testFraction, epochs, learningRate) ==
  LET testCount == TestCount(Len(indices), testFraction)
      split == SplitFrom(indices, testCount, 1, [test |-> <<>>, train |-> <<>>])
      trainEntries == EntriesAt(dataset.entries, split.train, 1, <<>>)
      testEntries == EntriesAt(dataset.entries, split.test, 1, <<>>)
      model == trainSoftmaxModel([featureNames |-> dataset.featureNames,
                                  entries |-> trainEntries], epochs, learningRate)
      tested == TestLoop(model, testEntries, 1, [perLabel |-> <<>>, correct |-> 0])
      totalSamples == Len(testEntries)
  IN IF Len(trainEntries) < 2
     THEN [split |-> split,
           error |-> "Not enough training samples after split; collect more data."]
     ELSE IF IsError(model) THEN [split |-> split, error |-> model.error]
     ELSE [split |-> split,
           result |-> [overallAccuracy |-> IF totalSamples # 0
                                           THEN RDiv(tested.correct * FP, totalSamples)
                                           ELSE 0,
                       totalSamples |-> totalSamples,
                       perLabel |-> WithAccuracy(tested.perLabel, 1, <<>>)],
           model |-> model]

\* ------------------------------------------------------------------- state
VARIABLES
  fn,      \* the function applied last ("none" before the first call)
  arg,     \* its arguments
  ret      \* what it returned

\* the recorder screen (GestureScreen of gesture.tsx)
VARIABLES
  recording,       \* useState recording
  accelSub,        \* accelSub.current holds a subscription
  gyroSub,         \* gyroSub.current holds a subscription
  accelListeners,  \* listeners registered with the accelerometer
  gyroListeners,   \* listeners registered with the gyroscope
  lastGyro,        \* lastGyro.current.z
  bufferRef,       \* bufferRef.current
  labelName,       \* useState labelName
  templates,       \* useState templates: entries [label, arr] in key order,
                   \* arr the identity of the label's exemplar array
  heap,            \* the exemplar arrays that are still referenced
  labelStats,      \* useState labelStats
  statsTimers,     \* the pending setTimeout(() => computeLabelStats(copy), 0)
  launched         \* the label handed to handleActionForLabel by the last step

\* the ML screen (MLGestureScreen of ml.tsx)
VARIABLES
  mlMounted,         \* the screen is mounted
  mlRecording,       \* useState recording
  mlAccelSub,        \* accelSub.current holds a subscription
  mlGyroSub,         \* gyroSub.current holds a subscription
  mlAccelListeners,  \* listeners registered with the accelerometer
  mlGyroListeners,   \* listeners registered with the gyroscope
  mlLastGyro,        \* lastGyro.current.z
  mlBufferRef,       \* bufferRef.current
  mlLabelName,       \* useState labelName
  dataset,           \* useState dataset
  dtwTemplates,      \* useState dtwTemplates: entries [label, exemplars]
  model,             \* useState model
  training,          \* useState training
  trainTimers,       \* the datasets captured by the pending setTimeout(..., 16)
  runtimeFile,       \* gesture_ml_dataset.runtime.json
  hydration,         \* where the hydration of the mount effect stands
  pendingWrites,     \* the texts of the writes the persist effect has started
  alert              \* the title of the Alert the last step has shown

\* the optimize manager (module state of optimize-manager.ts)
VARIABLES
  optState,            \* the state object
  pollTimer,           \* pollTimer holds an interval
  lastNotificationTs,  \* lastNotificationTs, in minutes
  clock,               \* Date.now(), in minutes
  runChecks,           \* the calls of runCheck that are waiting at an await
  notified             \* the times of the notifications since the last start

\* the song screen (SongScreen of song.tsx)
VARIABLES
  busyRef,         \* busyRef.current
  preparing,       \* useState preparing
  listening,       \* useState listening
  recordingRef,    \* recordingRef.current holds a recording
  autoTimerRef,    \* autoTimerRef.current holds the auto-stop timeout
  songCalls        \* the calls of startListening and stopAndPredict that have
                   \* passed the busy guard and are waiting at an await

fnVars == <<fn, arg, ret>>
optVars == <<optState, pollTimer, lastNotificationTs, clock, runChecks, notified>>
songVars == <<busyRef, preparing, listening, recordingRef, autoTimerRef, songCalls>>
appVars == <<optVars, songVars>>
mlVars == <<mlMounted, mlRecording, mlAccelSub, mlGyroSub, mlAccelListeners,
            mlGyroListeners, mlLastGyro, mlBufferRef, mlLabelName, dataset, dtwTemplates,
            model, training, trainTimers, runtimeFile, hydration, pendingWrites, alert>>
recorderVars == <<recording, accelSub, gyroSub, accelListeners, gyroListeners, lastGyro,
                  bufferRef, labelName, templates, heap, labelStats, statsTimers, launched>>
screenVars == <<recorderVars, mlVars, appVars>>
vars == <<fnVars, screenVars>>

NoStats == [l \in {} |-> 0]
NoHeap == [a \in {} |-> <<>>]

\* the recorder screen after mounting
RecorderInit ==
  /\ recording = FALSE
  /\ accelSub = FALSE /\ gyroSub = FALSE
  /\ accelListeners = 0 /\ gyroListeners = 0
  /\ lastGyro = 0
  /\ bufferRef = <<>>
  /\ labelName = ""
  /\ templates = <<>>
  /\ heap = NoHeap
  /\ labelStats = NoStats
  /\ statsTimers = <<>>
  /\ launched = NoLabel

initialDataset == [featureNames |-> <<>>, entries |-> <<>>]
NoModel == [null |-> TRUE]
NoFile == [exists |-> FALSE]
NoAlert == ""

\* the state of the ML screen's component before anything has run
MlFresh ==
  /\ mlRecording = FALSE
  /\ mlAccelSub = FALSE /\ mlGyroSub = FALSE
  /\ mlAccelListeners = 0 /\ mlGyroListeners = 0
  /\ mlLastGyro = 0
  /\ mlBufferRef = <<>>
  /\ mlLabelName = ""
  /\ dataset = initialDataset
  /\ dtwTemplates = <<>>
  /\ model = NoModel
  /\ training = FALSE
  /\ trainTimers = <<>>
  /\ alert = NoAlert

\* the ML screen is not mounted
MlIdle ==
  /\ mlMounted = FALSE
  /\ MlFresh
  /\ runtimeFile = NoFile
  /\ hydration = [pc |-> "done"]
  /\ pendingWrites = <<>>

\* lastNotificationTs = 0 is the epoch; the clock starts a cooldown after it
NOTIFY_COOLDOWN == 15        \* 15 * 60 * 1000 ms, in minutes

DEFAULT_STATE ==
  [enabled |-> FALSE, svcAvailable |-> FALSE, hasUsageAccess |-> FALSE,
   summary |-> <<>>, offenders |-> <<>>, totalMB |-> 0,
   lookbackMinutes |-> 1, perAppThresholdMB |-> 1, totalThresholdMB |-> 5]

\* optimize-manager.ts as loaded
OptIdle ==
  /\ optState = DEFAULT_STATE
  /\ pollTimer = FALSE
  /\ lastNotificationTs = 0
  /\ clock = NOTIFY_COOLDOWN
  /\ runChecks = <<>>
  /\ notified = <<>>

\* the song screen after mounting
SongIdle ==
  /\ busyRef = FALSE
  /\ preparing = FALSE
  /\ listening = FALSE
  /\ recordingRef = FALSE
  /\ autoTimerRef = FALSE
  /\ songCalls = <<>>

AppIdle == OptIdle /\ SongIdle

\* no screen is in use while a function of a module is called on its own
ScreensIdle == RecorderInit /\ MlIdle /\ AppIdle

FnIdle == fn = "none" /\ arg = <<>> /\ ret = 0

\* ------------------------------------------------- calls of dtwDistance
\* the two sequences are drawn first; each implementation is then applied
InitDtwCalls == /\ fn = "none"
                /\ arg \in Sequences \X Sequences
                /\ ret = 0
                /\ ScreensIdle

CallDtwDistance ==
  /\ fn = "none"
  /\ fn' = "dtwDistance"
  /\ ret' = dtwDistance(arg[1], arg[2])
  /\ UNCHANGED <<arg, screenVars>>

CallDtwDistanceMl ==
  /\ fn = "none"
  /\ fn' = "dtwDistanceMl"
  /\ ret' = dtwDistanceMl(arg[1], arg[2])
  /\ UNCHANGED <<arg, screenVars>>

NextDtwCalls == CallDtwDistance \/ CallDtwDistanceMl
SpecDtw == InitDtwCalls /\ [][NextDtwCalls]_vars

\* ---------------------------------------------------- warping paths
\* the monotone warping paths from cell (1, 1) to cell (i, j): each step moves
\* one row down, one column right, or both
RECURSIVE WarpingPaths(_, _)
WarpingPaths(i, j) ==
  IF i < 1 \/ j < 1 THEN {}
  ELSE IF i = 1 /\ j = 1 THEN { << <<1, 1>> >> }
  ELSE { Append(p, <<i, j>>) :
           p \in WarpingPaths(i - 1, j) \cup WarpingPaths(i, j - 1) \cup WarpingPaths(i - 1, j - 1) }

RECURSIVE CostRows(_, _, _, _)
\* the cost of every cell, row by row: rows[i][j] = cost(i, j)
CostRows(A, B, k, rows) ==
  IF k >= Len(A) * Len(B) THEN rows
  ELSE LET i == 1 + (k \div Len(B))
           j == 1 + (k % Len(B))
       IN CostRows(A, B, k + 1, [rows EXCEPT ![i][j] = sampleDistance(A[i], B[j])])

RECURSIVE PathCost(_, _, _)
PathCost(p, cost, i) ==
  IF i > Len(p) THEN 0 ELSE cost[p[i][1]][p[i][2]] + PathCost(p, cost, i + 1)

MinOf(S) == CHOOSE x \in S : \A y \in S : x <= y

MinWarpingCost(a, b) ==
  LET cost == CostRows(normalizeSequence(a), normalizeSequence(b), 0,
                       [i \in 1..Len(a) |-> [j \in 1..Len(b) |-> 0]])
  IN MinOf({ PathCost(p, cost, 1) : p \in WarpingPaths(Len(a), Len(b)) })

\* C7: dtwDistance is +infinity when a sequence is empty and otherwise the
\* minimum cumulative cost over all monotone warping paths divided by n + m;
\* the recorder screen's and the ML screen's implementations agree.
Thm_C7 ==
  fn # "none" =>
    /\ (Len(arg[1]) = 0 \/ Len(arg[2]) = 0) => ret = Inf
    /\ (Len(arg[1]) > 0 /\ Len(arg[2]) > 0) =>
         ret = DivN(MinWarpingCost(arg[1], arg[2]), Len(arg[1]) + Len(arg[2]))
    /\ fn = "dtwDistance" => ret = dtwDistanceMl(arg[1], arg[2])
    /\ fn = "dtwDistanceMl" => ret = dtwDistance(arg[1], arg[2])

Wit_C7 ==
  /\ fn = "dtwDistanceMl"
  /\ Len(arg[1]) = 2 /\ Len(arg[2]) = 3
  /\ \E i \in 1..2 : IsNaN(arg[1][i].ax)
  /\ ret > 0 /\ ret < Inf

\* C8: dtwDistance(a, b) = dtwDistance(b, a) for all sequences a and b.
Thm_C8 == fn = "dtwDistance" => ret = dtwDistance(arg[2], arg[1])

Wit_C8 ==
  /\ fn = "dtwDistance"
  /\ Len(arg[1]) = 2 /\ Len(arg[2]) = 3
  /\ ret > 0 /\ ret < Inf

\* C9 as stated: dtwDistance(s, s) = 0 for every sequence s.
Orig_C9 == (fn = "dtwDistance" /\ arg[1] = arg[2]) => ret = 0

\* C9 (amended): dtwDistance(s, s) = 0 for every sequence s that has at least
\* one sample; for the empty sequence it is +infinity.
Thm_C9 ==
  (fn = "dtwDistance" /\ arg[1] = arg[2]) =>
     ret = IF Len(arg[1]) = 0 THEN Inf ELSE 0

Wit_C9 ==
  /\ fn = "dtwDistance"
  /\ arg[1] = arg[2]
  /\ Len(arg[1]) = 3
  /\ arg[1][1] # arg[1][2]
  /\ ret = 0

\* ------------------------------------ calls of classifySequenceWithDetails
S0 == Sample(0, 0, 0, 0)
S1 == Sample(0, FP, 0, FP)
SN == Sample(0, NaN, FP, 0)

\* the exemplars of the drawn template stores, and the drawn queries
TemplateSeqs == { <<S0, S1>>, <<S1, S0, S0>>, <<>> }
QuerySeqs == { <<>>, <<S0, S1>>, <<S0, S0, S1>>, <<S0, S1, S0>>, <<SN, S0>> }

ExemplarLists == SeqsUpTo(TemplateSeqs, MaxPerLabel)

\* template objects of at most two labels, in either key order
TemplateObjects ==
  { <<>> }
  \cup { << [label |-> l, exemplars |-> e] >> : l \in {"maps", "x"}, e \in ExemplarLists }
  \cup { << [label |-> l[1], exemplars |-> e1], [label |-> l[2], exemplars |-> e2] >> :
           l \in { <<"maps", "x">>, <<"x", "maps">> }, e1 \in ExemplarLists, e2 \in ExemplarLists }

InitClassifyCalls == /\ fn = "none"
                     /\ arg \in TemplateObjects \X QuerySeqs
                     /\ ret = 0
                     /\ ScreensIdle

CallClassify ==
  /\ fn = "none"
  /\ fn' = "classifySequenceWithDetails"
  /\ ret' = classifySequenceWithDetails(arg[1], arg[2])
  /\ UNCHANGED <<arg, screenVars>>

NextClassifyCalls == CallClassify
SpecClassify == InitClassifyCalls /\ [][NextClassifyCalls]_vars

\* the DTW distances from the query to the exemplars of entry i of the store
QueryDists(obj, seq, i) ==
  [k \in 1..Len(obj[i].exemplars) |-> dtwDistance(seq, obj[i].exemplars[k])]

\* the sum of finitely many numbers, none of them NaN
RECURSIVE Total(_)
Total(xs) == IF Len(xs) = 0 THEN 0
             ELSE IF Head(xs) = Inf \/ Total(Tail(xs)) = Inf THEN Inf
             ELSE Head(xs) + Total(Tail(xs))

\* the arithmetic mean of the distances; none for a label without exemplars
HasMean(obj, i) == Len(obj[i].exemplars) > 0
MeanDist(obj, seq, i) ==
  LET t == Total(QueryDists(obj, seq, i))
  IN IF t = Inf THEN Inf ELSE RDiv(t, Len(obj[i].exemplars))

\* entry i has the lowest mean, and is the first entry that has it
IsLowestMean(obj, seq, i) ==
  /\ HasMean(obj, i)
  /\ \A j \in 1..Len(obj) : HasMean(obj, j) => MeanDist(obj, seq, i) <= MeanDist(obj, seq, j)
  /\ \A j \in 1..(i - 1) : HasMean(obj, j) => MeanDist(obj, seq, i) < MeanDist(obj, seq, j)

ReportsMinAndMean(obj, seq, i, res) ==
  LET dists == QueryDists(obj, seq, i)
      d == DetailOf(res, obj[i].label)
  IN /\ d.avg = MeanDist(obj, seq, i)
     /\ \A k \in 1..Len(dists) : d.min <= dists[k]
     /\ \E k \in 1..Len(dists) : d.min = dists[k]

\* C6 as stated: for a non-empty store and any query the result is the label
\* of the lowest mean distance (the first one on a tie), with the minimum and
\* the mean of that label's distances.
Orig_C6 ==
  (fn = "classifySequenceWithDetails" /\ Len(arg[1]) > 0) =>
     \E i \in 1..Len(arg[1]) :
        /\ IsLowestMean(arg[1], arg[2], i)
        /\ ret.label = arg[1][i].label
        /\ ReportsMinAndMean(arg[1], arg[2], i, ret)

\* C6 (amended): if some label has a finite mean distance, the result is the
\* label of the lowest mean (the first one on a tie) with the minimum and the
\* mean of exactly that label's distances; if no label has a finite mean
\* (empty query, or only empty exemplars) the result has no label.
Thm_C6 ==
  fn = "classifySequenceWithDetails" =>
     IF \E i \in 1..Len(arg[1]) : HasMean(arg[1], i) /\ MeanDist(arg[1], arg[2], i) < Inf
     THEN \E i \in 1..Len(arg[1]) :
             /\ IsLowestMean(arg[1], arg[2], i)
             /\ ret.label = arg[1][i].label
             /\ ret.score = MeanDist(arg[1], arg[2], i)
             /\ ReportsMinAndMean(arg[1], arg[2], i, ret)
     ELSE ret.label = NoLabel

\* two labels tie for the lowest finite mean and the first one is returned
Wit_C6 ==
  /\ fn = "classifySequenceWithDetails"
  /\ Len(arg[1]) = 2
  /\ HasMean(arg[1], 1) /\ HasMean(arg[1], 2)
  /\ Len(arg[1][2].exemplars) = 2
  /\ MeanDist(arg[1], arg[2], 1) = MeanDist(arg[1], arg[2], 2)
  /\ MeanDist(arg[1], arg[2], 1) > 0
  /\ MeanDist(arg[1], arg[2], 1) < Inf
  /\ ret.label = arg[1][1].label

\* ------------------------------------------------- the recorder screen
\* bounds of the recorder screen
\* (sensor events stop after MaxBuf samples; at most MaxStored exemplars are
\* kept; at most MaxTimers recomputations are pending)

AccelReadings == {0, FP}      \* a.x of an accelerometer event
GyroReadings == {0}           \* g.z of a gyroscope event
LabelNames == {"", "maps"}     \* what the user types into the label field

\* the parsed files and clipboard texts the user imports
ImportPayloads ==
  { <<>>,
    << [label |-> "x", exemplars |-> << <<Sample(0, 0, 0, 0), Sample(40, FP, 0, 0)>> >>] >>,
    << [label |-> "maps", exemplars |-> <<>>],
       [label |-> "x", exemplars |-> << <<Sample(0, 0, 0, 0)>> >>] >> }

ThresholdFloor == 300         \* 0.3
ThresholdFactor == 1500       \* 1.5
ThresholdFallback == 600      \* 0.6

\* the Templates object a snapshot denotes: the arrays are read from the heap
View(tpl, h) ==
  [i \in 1..Len(tpl) |-> [label |-> tpl[i].label, exemplars |-> h[tpl[i].arr]]]

TplLabels(tpl) == { tpl[i].label : i \in 1..Len(tpl) }
ArrOf(tpl, label) == tpl[CHOOSE i \in 1..Len(tpl) : tpl[i].label = label].arr

RECURSIVE CountExemplars(_, _, _)
CountExemplars(tpl, h, i) ==
  IF i > Len(tpl) THEN 0 ELSE Len(h[tpl[i].arr]) + CountExemplars(tpl, h, i + 1)

\* the arrays reachable from the state value and from the pending closures
Referenced(tpl, timers) ==
  { tpl[i].arr : i \in 1..Len(tpl) }
  \cup UNION { { timers[k][i].arr : i \in 1..Len(timers[k]) } : k \in 1..Len(timers) }

\* array identities carry no information: the reachable arrays are numbered
\* in the order in which the state value and the closures mention them
RECURSIVE ArrsOf(_, _)
ArrsOf(tpl, i) == IF i > Len(tpl) THEN <<>> ELSE <<tpl[i].arr>> \o ArrsOf(tpl, i + 1)

RECURSIVE TimerArrs(_, _)
TimerArrs(timers, k) ==
  IF k > Len(timers) THEN <<>> ELSE ArrsOf(timers[k], 1) \o TimerArrs(timers, k + 1)

RECURSIVE FirstMentions(_, _, _)
FirstMentions(s, i, acc) ==
  IF i > Len(s) THEN acc
  ELSE FirstMentions(s, i + 1,
                     IF \E j \in 1..Len(acc) : acc[j] = s[i] THEN acc ELSE Append(acc, s[i]))

Renumber(tpl, ord) ==
  [i \in 1..Len(tpl) |->
     [label |-> tpl[i].label, arr |-> CHOOSE n \in 1..Len(ord) : ord[n] = tpl[i].arr]]

\* the next heap: what stays reachable from the new state value and closures
Reachable(tpl, timers, h) ==
  LET ord == FirstMentions(ArrsOf(tpl, 1) \o TimerArrs(timers, 1), 1, <<>>)
  IN /\ templates' = Renumber(tpl, ord)
     /\ statsTimers' = [k \in 1..Len(timers) |-> Renumber(timers[k], ord)]
     /\ heap' = [n \in 1..Len(ord) |-> h[ord[n]]]

FreshArr(h) == CHOOSE a \in 1..(Cardinality(DOMAIN h) + 1) : a \notin DOMAIN h

\* the effects of stopSensors on the subscriptions
StopSensorsEffects ==
  /\ recording' = FALSE
  /\ accelListeners' = IF accelSub THEN accelListeners - 1 ELSE accelListeners
  /\ gyroListeners' = IF gyroSub THEN gyroListeners - 1 ELSE gyroListeners
  /\ accelSub' = FALSE
  /\ gyroSub' = FALSE

\* a startSensors without the check of the subscriptions
startSensors_unguarded ==
  /\ bufferRef' = <<>>
  /\ recording' = TRUE
  /\ gyroSub' = TRUE /\ gyroListeners' = gyroListeners + 1
  /\ accelSub' = TRUE /\ accelListeners' = accelListeners + 1
  /\ launched' = NoLabel
  /\ UNCHANGED <<lastGyro, labelName, templates, heap, labelStats, statsTimers>>

\* startSensors: returns at once when a subscription is held
startSensors ==
  /\ ~(accelSub \/ gyroSub)
  /\ bufferRef' = <<>>
  /\ recording' = TRUE
  /\ gyroSub' = TRUE /\ gyroListeners' = gyroListeners + 1
  /\ accelSub' = TRUE /\ accelListeners' = accelListeners + 1
  /\ launched' = NoLabel
  /\ UNCHANGED <<lastGyro, labelName, templates, heap, labelStats, statsTimers>>

stopSensors ==
  /\ StopSensorsEffects
  /\ launched' = NoLabel
  /\ UNCHANGED <<lastGyro, bufferRef, labelName, templates, heap, labelStats, statsTimers>>

\* "Start capture" / "Stop capture": onPress = recording ? stopSensors : startSensors
PressCapture ==
  \/ ~recording /\ startSensors
  \/ recording /\ stopSensors

\* the gyroscope listener
GyroEvent ==
  \E g \in GyroReadings :
    /\ gyroListeners > 0
    /\ lastGyro' = g
    /\ launched' = NoLabel
    /\ UNCHANGED <<recording, accelSub, gyroSub, accelListeners, gyroListeners, bufferRef,
                   labelName, templates, heap, labelStats, statsTimers>>

\* the accelerometer listener: one sample per registered listener
AccelEvent ==
  \E a \in AccelReadings :
    /\ accelListeners > 0
    /\ Len(bufferRef) + accelListeners <= MaxBuf
    /\ bufferRef' = bufferRef \o [i \in 1..accelListeners |->
                                    Sample(40 * Len(bufferRef), a, 0, lastGyro)]
    /\ launched' = NoLabel
    /\ UNCHANGED <<recording, accelSub, gyroSub, accelListeners, gyroListeners, lastGyro,
                   labelName, templates, heap, labelStats, statsTimers>>

SetLabelName ==
  \E l \in LabelNames :
    /\ l # labelName
    /\ labelName' = l
    /\ launched' = NoLabel
    /\ UNCHANGED <<recording, accelSub, gyroSub, accelListeners, gyroListeners, lastGyro,
                   bufferRef, templates, heap, labelStats, statsTimers>>

\* const copy = { ...prev }; if (!copy[labelName]) copy[labelName] = [];
\* copy[labelName].push(seq): the copy is a new object whose arrays are those
\* of prev, and the push changes the array in place
SaveAppend(tpl, h, label, seq) ==
  LET has == label \in TplLabels(tpl)
      a == IF has THEN ArrOf(tpl, label) ELSE FreshArr(h)
      copy == IF has THEN tpl ELSE Append(tpl, [label |-> label, arr |-> a])
      pushed == [x \in DOMAIN h \cup {a} |->
                   IF x = a THEN Append(IF has THEN h[a] ELSE <<>>, seq) ELSE h[x]]
  IN [copy |-> copy, heap |-> pushed]

saveExample ==
  /\ StopSensorsEffects
  /\ launched' = NoLabel
  /\ UNCHANGED <<lastGyro, labelName, labelStats>>
  /\ IF labelName = "" \/ Len(bufferRef) = 0
     THEN UNCHANGED <<bufferRef, templates, heap, statsTimers>>
     ELSE LET saved == SaveAppend(templates, heap, labelName, bufferRef)
          IN /\ CountExemplars(templates, heap, 1) < MaxStored
             /\ Len(statsTimers) < MaxTimers
             /\ Reachable(saved.copy, Append(statsTimers, saved.copy), saved.heap)
             /\ bufferRef' = <<>>

\* the deferred computeLabelStats(copy) of saveExample
StatsTimer ==
  /\ Len(statsTimers) > 0
  /\ labelStats' = computeLabelStats(View(Head(statsTimers), heap))
  /\ Reachable(templates, Tail(statsTimers), heap)
  /\ launched' = NoLabel
  /\ UNCHANGED <<recording, accelSub, gyroSub, accelListeners, gyroListeners, lastGyro,
                 bufferRef, labelName>>

\* setTemplates(parsed); computeLabelStats(parsed): every array of the parsed
\* object is new
ImportEffects(parsed) ==
  LET tpl == [i \in 1..Len(parsed) |-> [label |-> parsed[i].label, arr |-> i]]
      old == [k \in 1..Len(statsTimers) |->
                [i \in 1..Len(statsTimers[k]) |->
                   [statsTimers[k][i] EXCEPT !.arr = @ + Len(parsed)]]]
  IN /\ Reachable(tpl, old,
                  [a \in Referenced(tpl, old) |->
                     IF a <= Len(parsed) THEN parsed[a].exemplars
                     ELSE heap[a - Len(parsed)]])
     /\ labelStats' = computeLabelStats(parsed)
     /\ launched' = NoLabel
     /\ UNCHANGED <<recording, accelSub, gyroSub, accelListeners, gyroListeners, lastGyro,
                    bufferRef, labelName>>

importTemplatesFromFile == \E parsed \in ImportPayloads : ImportEffects(parsed)

importFromClipboard == \E parsed \in ImportPayloads : ImportEffects(parsed)

\* the threshold and the decision of stopAndClassify
AdaptiveThreshold(stats, label) ==
  IF label \in DOMAIN stats /\ stats[label].exemplarCount >= 2
  THEN Max2(ThresholdFloor, Mul(stats[label].meanIntra, ThresholdFactor))
  ELSE ThresholdFallback

stopAndClassify ==
  /\ StopSensorsEffects
  /\ UNCHANGED <<lastGyro, labelName, templates, heap, labelStats, statsTimers>>
  /\ IF Len(bufferRef) = 0
     THEN /\ launched' = NoLabel
          /\ UNCHANGED bufferRef
     ELSE LET seq == movingAverageFilter(bufferRef, 3)
              res == classifySequenceWithDetails(View(templates, heap), seq)
          IN /\ bufferRef' = <<>>
             /\ launched' =
                  IF res.label = NoLabel THEN NoLabel
                  ELSE IF Lt(DetailOf(res, res.label).min,
                             AdaptiveThreshold(labelStats, res.label))
                       THEN res.label ELSE NoLabel

\* "Stop & classify" / "Start then classify"
PressClassify ==
  \/ ~recording /\ startSensors
  \/ recording /\ stopAndClassify

\* the "Yes" of the "Clear templates?" alert; the button that opens the alert
\* is disabled while there are no templates
clearTemplates ==
  /\ Len(templates) > 0
  /\ Reachable(<<>>, statsTimers, heap)
  /\ labelStats' = NoStats
  /\ launched' = NoLabel
  /\ UNCHANGED <<recording, accelSub, gyroSub, accelListeners, gyroListeners, lastGyro,
                 bufferRef, labelName>>

InitRecorder == FnIdle /\ RecorderInit /\ MlIdle /\ AppIdle

NextRecorder ==
  \/ (PressCapture /\ UNCHANGED <<fnVars, mlVars, appVars>>)
  \/ (PressClassify /\ UNCHANGED <<fnVars, mlVars, appVars>>)
  \/ (GyroEvent /\ UNCHANGED <<fnVars, mlVars, appVars>>)
  \/ (AccelEvent /\ UNCHANGED <<fnVars, mlVars, appVars>>)
  \/ (SetLabelName /\ UNCHANGED <<fnVars, mlVars, appVars>>)
  \/ (saveExample /\ UNCHANGED <<fnVars, mlVars, appVars>>)
  \/ (StatsTimer /\ UNCHANGED <<fnVars, mlVars, appVars>>)
  \/ (importTemplatesFromFile /\ UNCHANGED <<fnVars, mlVars, appVars>>)
  \/ (importFromClipboard /\ UNCHANGED <<fnVars, mlVars, appVars>>)
  \/ (clearTemplates /\ UNCHANGED <<fnVars, mlVars, appVars>>)

SpecRecorder == InitRecorder /\ [][NextRecorder]_vars

\* the threshold the label's present exemplars call for
CurrentThreshold(obj, label) ==
  LET exs == ObjGet(obj, label)
  IN IF Len(exs) >= 2
     THEN Max2(ThresholdFloor, Mul(LabelStat(exs).meanIntra, ThresholdFactor))
     ELSE ThresholdFallback

\* C5 as stated: stop-and-classify launches the action of the winning label
\* only if the minimum DTW distance from the query to that label's exemplars is
\* strictly below max(0.3, 1.5 * meanIntra) when the label currently has at
\* least two exemplars, and strictly below 0.6 otherwise.
Orig_C5 ==
  [][launched' # NoLabel =>
       LET obj == View(templates, heap)
           seq == movingAverageFilter(bufferRef, 3)
       IN /\ launched' \in ObjLabels(obj)
          /\ Lt(LabelDetail(seq, ObjGet(obj, launched')).min,
                CurrentThreshold(obj, launched'))]_vars

\* ------------------------------- calls of trainSoftmaxModel, predictFromModel
MaxTrainEntries == 3     \* most entries of a dataset drawn as an input
MaxEpochs == 2           \* most epochs drawn as an input

DefaultLearningRate == 80    \* 0.08

FeatureNames2 == <<"f1", "f2">>

\* dataset entries: two that fit the two feature names, one with a shorter and
\* one with a longer values list
TrainEntrySet ==
  { [label |-> "a", values |-> <<0, FP>>],
    [label |-> "b", values |-> <<FP, FP>>],
    [label |-> "a", values |-> <<FP>>],
    [label |-> "b", values |-> <<0, FP, FP>>] }

TrainDatasets ==
  { [featureNames |-> FeatureNames2, entries |-> es] :
      es \in SeqsUpTo(TrainEntrySet, MaxTrainEntries) }

QueryVectors == { <<>>, <<FP>>, <<0, FP>>, <<FP, 0, FP>> }

InitTrainCalls ==
  /\ fn = "none"
  /\ arg \in TrainDatasets \X (0..MaxEpochs)
  /\ ret = 0
  /\ ScreensIdle

CallTrain ==
  /\ fn = "none"
  /\ fn' = "trainSoftmaxModel"
  /\ ret' = trainSoftmaxModel(arg[1], arg[2], DefaultLearningRate)
  /\ UNCHANGED <<arg, screenVars>>

\* the returned model is applied to a feature vector
CallPredict ==
  /\ fn = "trainSoftmaxModel"
  /\ ~IsError(ret)
  /\ \E values \in QueryVectors :
       /\ fn' = "predictFromModel"
       /\ arg' = <<ret, values>>
       /\ ret' = predictFromModel(ret, values)
  /\ UNCHANGED screenVars

NextTrainCalls == CallTrain \/ CallPredict
SpecTrain == InitTrainCalls /\ [][NextTrainCalls]_vars

\* C3 as stated: a returned model has pairwise distinct labels, one weight row
\* per label with one column per feature name, one bias per label, featureMeans
\* and featureStd with one element per feature name, and no featureStd of 0.
Orig_C3 ==
  (fn = "trainSoftmaxModel" /\ ~IsError(ret)) =>
     LET L == Len(ret.labels)
         F == Len(ret.featureNames)
     IN /\ \A i, j \in 1..L : i # j => ret.labels[i] # ret.labels[j]
        /\ Len(ret.weights) = L
        /\ \A c \in 1..L : Len(ret.weights[c]) = F
        /\ Len(ret.biases) = L
        /\ Len(ret.featureMeans) = F
        /\ Len(ret.featureStd) = F
        /\ \A f \in 1..Len(ret.featureStd) : ret.featureStd[f] # 0

\* C4 as stated: predictFromModel raises an error when the model has no label
\* or when the input vector's length differs from the model's feature count.
Orig_C4 ==
  (fn = "predictFromModel"
     /\ (Len(arg[1].labels) = 0 \/ Len(arg[2]) # Len(arg[1].featureNames))) =>
        IsError(ret)

\* ------------------------------------- calls of evaluateSoftmaxOnDataset
MaxEvalEntries == 4      \* most entries of a dataset drawn as an input
EvalEpochs == 1          \* the epochs option of the drawn calls

FeatureNames1 == <<"f1">>

EvalEntrySet ==
  { [label |-> "a", values |-> <<0>>],
    [label |-> "b", values |-> <<FP>>],
    [label |-> "c", values |-> <<0>>] }

EvalDatasets ==
  { [featureNames |-> FeatureNames1, entries |-> es] :
      es \in SeqsUpTo(EvalEntrySet, MaxEvalEntries) }

\* the testFraction option: 0, 0.2, 0.5, 0.75 and 1
TestFractions == { 0, FP \div 5, FP \div 2, (3 * FP) \div 4, FP }

RECURSIVE Iota(_)
\* entries.map((_, idx) => idx), counted from 1
Iota(n) == IF n = 0 THEN <<>> ELSE Append(Iota(n - 1), n)

InitEvalCalls ==
  /\ fn = "none"
  /\ arg \in EvalDatasets \X TestFractions
  /\ ret = 0
  /\ ScreensIdle

\* the call up to shuffleInPlace(indices)
EvalStart ==
  /\ fn = "none"
  /\ IF Len(arg[1].entries) = 0
     THEN /\ fn' = "evaluateSoftmaxOnDataset"
          /\ ret' = Error("Cannot evaluate model: dataset is empty")
     ELSE /\ fn' = "shuffleInPlace"
          /\ ret' = [arr |-> Iota(Len(arg[1].entries)), i |-> Len(arg[1].entries)]
  /\ UNCHANGED <<arg, screenVars>>

\* one round of the loop of shuffleInPlace: j = Math.floor(Math.random() * (i + 1))
ShuffleStep ==
  /\ fn = "shuffleInPlace"
  /\ ret.i > 1
  /\ \E j \in 1..ret.i : ret' = [arr |-> Swap(ret.arr, ret.i, j), i |-> ret.i - 1]
  /\ UNCHANGED <<fn, arg, screenVars>>

\* the rest of the call, from the split on
EvalFinish ==
  /\ fn = "shuffleInPlace"
  /\ ret.i <= 1
  /\ fn' = "evaluateSoftmaxOnDataset"
  /\ ret' = EvaluateShuffled(arg[1], ret.arr, arg[2], EvalEpochs, DefaultLearningRate)
  /\ UNCHANGED <<arg, screenVars>>

NextEvalCalls == EvalStart \/ ShuffleStep \/ EvalFinish
SpecEval == InitEvalCalls /\ [][NextEvalCalls]_vars

\* the entries of a list of indices, as a set
Members(idxs) == { idxs[k] : k \in 1..Len(idxs) }

\* C10: for N entries and a test fraction f between 0 and 1, every shuffle puts
\* exactly max(1, floor(N * f)) entries in the test set, the test set and the
\* training set are disjoint and together hold every entry exactly once, and
\* the call fails when fewer than two entries remain for training; 0.5 of 10
\* entries are 5 test entries.
Thm_C10 ==
  /\ TestCount(10, FP \div 2) = 5
  /\ (fn = "evaluateSoftmaxOnDataset" /\ Len(arg[1].entries) > 0) =>
       LET N == Len(arg[1].entries)
           floorNf == CHOOSE q \in 0..N : q * FP <= N * arg[2] /\ N * arg[2] < (q + 1) * FP
           test == ret.split.test
           train == ret.split.train
       IN /\ Len(test) = (IF floorNf >= 1 THEN floorNf ELSE 1)
          /\ Members(test) \cap Members(train) = {}
          /\ Members(test) \cup Members(train) = 1..N
          /\ Len(test) + Len(train) = N
          /\ Len(train) < 2 => IsError(ret)

Wit_C10 ==
  /\ fn = "evaluateSoftmaxOnDataset"
  /\ Len(arg[1].entries) = 4
  /\ arg[2] = FP \div 2
  /\ ret.split.test = <<3, 1>>
  /\ ret.split.train = <<4, 2>>
  /\ ~IsError(ret)

\* ------------------------------------------------------- the ML screen
MaxDatasetEntries == 2   \* entries after which nothing more is saved
MaxMlBuf == 1            \* samples a recording of this screen holds
MaxWrites == 1           \* writes of the persist effect that may be pending

TrainEpochs == 250           \* { epochs: 250, learningRate: 0.08 }
TrainLearningRate == 80
SensorInterval == 40         \* setUpdateInterval(40)

MlAccelReadings == {FP}       \* a.x of an accelerometer event
MlGyroReadings == {0}         \* g.z of a gyroscope event
MlLabelNames == {"", "a "}     \* what the user types into the label field

\* labelName.trim() on the names above
Trim(name) == IF name = "a " THEN "a" ELSE name

\* JSON.stringify and JSON.parse: every number a dataset of this screen holds
\* is finite, so the text denotes the value it was made from
Stringify(value) == [json |-> value]
NotJson == [garbage |-> TRUE]
IsJson(text) == "json" \in DOMAIN text
Parse(text) == text.json

\* parsed dataset files: a well-formed one with two labels, one whose entry
\* has fewer values than there are feature names, one without featureNames
\* and one without an entries list
TwoLabelDataset ==
  [featureNames |-> FeatureNames2,
   entries |-> << [label |-> "a", values |-> <<0, FP>>],
                  [label |-> "b", values |-> <<FP, FP>>] >>]

\* the feature names of every extraction: they do not depend on the samples
ExtractedNames == extractFeatureVector(<<>>).featureNames

\* the feature names of the extraction with the last one renamed
RenamedLayout == [ExtractedNames EXCEPT ![Len(ExtractedNames)] = "sample_rate"]

DatasetPayloads ==
  { TwoLabelDataset,
    [featureNames |-> FeatureNames2,
     entries |-> << [label |-> "a", values |-> <<FP>>] >>],
    [entries |-> << [label |-> "a", values |-> <<FP>>] >>],
    [featureNames |-> FeatureNames2] }

\* what the document picker and the read deliver to importDataset
ImportFiles ==
  { [type |-> "cancel"], [type |-> "success", text |-> NotJson] }
  \cup { [type |-> "success", text |-> Stringify(d)] : d \in DatasetPayloads }

\* further files: a dataset of the extracted layout with the last name
\* renamed, and an object whose entries is an object
OtherImportFiles ==
  { [type |-> "success",
     text |-> Stringify([featureNames |-> RenamedLayout, entries |-> <<>>])],
    [type |-> "success",
     text |-> [json |-> [featureNames |-> FeatureNames2, entries |-> [length |-> 1]],
               entriesIsObject |-> TRUE]] }

\* what the runtime file holds when the screen mounts: nothing, text that is
\* not JSON, a dataset, or an object with entries and no featureNames
StoredFiles ==
  { NoFile,
    [exists |-> TRUE, text |-> NotJson],
    [exists |-> TRUE, text |-> Stringify(TwoLabelDataset)],
    [exists |-> TRUE,
     text |-> Stringify([entries |-> << [label |-> "a", values |-> <<FP>>],
                                        [label |-> "a", values |-> <<0>>] >>])] }

\* parsed model files: an untrained model, and one without weights
ModelPayloads ==
  { [labels |-> <<"a", "b">>, featureNames |-> FeatureNames2,
     featureMeans |-> <<0, 0>>, featureStd |-> <<FP, FP>>,
     weights |-> <<<<0, 0>>, <<0, 0>>>>, biases |-> <<0, 0>>,
     trainingSamples |-> 2, lossHistory |-> <<>>],
    [labels |-> <<"a">>, featureNames |-> FeatureNames2] }

HasKey(obj, key) == key \in DOMAIN obj

\* the persist effect runs after a commit that replaced the dataset object:
\* it starts a write of JSON.stringify(dataset)
Persisted(next) ==
  pendingWrites' = IF next # dataset THEN Append(pendingWrites, Stringify(next))
                   ELSE pendingWrites

MayPersist == Len(pendingWrites) < MaxWrites

MlStopSensorsEffects ==
  /\ mlRecording' = FALSE
  /\ mlAccelListeners' = IF mlAccelSub THEN mlAccelListeners - 1 ELSE mlAccelListeners
  /\ mlGyroListeners' = IF mlGyroSub THEN mlGyroListeners - 1 ELSE mlGyroListeners
  /\ mlAccelSub' = FALSE
  /\ mlGyroSub' = FALSE

MlSensorsUnchanged ==
  UNCHANGED <<mlRecording, mlAccelSub, mlGyroSub, mlAccelListeners, mlGyroListeners>>

\* what no handler touches
MlEnvUnchanged == UNCHANGED <<mlMounted, runtimeFile, hydration>>

\* startSensors of ml.tsx: returns at once when a subscription is held
MlStartSensors ==
  /\ mlMounted
  /\ ~(mlAccelSub \/ mlGyroSub)
  /\ mlBufferRef' = <<>>
  /\ mlRecording' = TRUE
  /\ mlGyroSub' = TRUE /\ mlGyroListeners' = mlGyroListeners + 1
  /\ mlAccelSub' = TRUE /\ mlAccelListeners' = mlAccelListeners + 1
  /\ alert' = NoAlert
  /\ MlEnvUnchanged
  /\ UNCHANGED <<mlLastGyro, mlLabelName, dataset, dtwTemplates, model, training,
                 trainTimers, pendingWrites>>

\* stopSensors of ml.tsx
MlStopSensors ==
  /\ mlMounted
  /\ MlStopSensorsEffects
  /\ alert' = NoAlert
  /\ MlEnvUnchanged
  /\ UNCHANGED <<mlLastGyro, mlBufferRef, mlLabelName, dataset, dtwTemplates, model,
                 training, trainTimers, pendingWrites>>

\* "Record gesture" / "Stop recording": onPress = recording ? stopSensors : startSensors
MlPressRecord ==
  \/ ~mlRecording /\ MlStartSensors
  \/ mlRecording /\ MlStopSensors

MlGyroEvent ==
  \E g \in MlGyroReadings :
    /\ mlGyroListeners > 0
    /\ mlLastGyro' = g
    /\ alert' = NoAlert
    /\ MlSensorsUnchanged /\ MlEnvUnchanged
    /\ UNCHANGED <<mlBufferRef, mlLabelName, dataset, dtwTemplates, model, training,
                   trainTimers, pendingWrites>>

\* the accelerometer listener: one sample per registered listener
MlAccelEvent ==
  \E a \in MlAccelReadings :
    /\ mlAccelListeners > 0
    /\ Len(mlBufferRef) + mlAccelListeners <= MaxMlBuf
    /\ mlBufferRef' = mlBufferRef \o
                        [i \in 1..mlAccelListeners |->
                           Sample(SensorInterval * Len(mlBufferRef), a, 0, mlLastGyro)]
    /\ alert' = NoAlert
    /\ MlSensorsUnchanged /\ MlEnvUnchanged
    /\ UNCHANGED <<mlLastGyro, mlLabelName, dataset, dtwTemplates, model, training,
                   trainTimers, pendingWrites>>

MlSetLabelName ==
  \E l \in MlLabelNames :
    /\ mlMounted
    /\ l # mlLabelName
    /\ mlLabelName' = l
    /\ alert' = NoAlert
    /\ MlSensorsUnchanged /\ MlEnvUnchanged
    /\ UNCHANGED <<mlLastGyro, mlBufferRef, dataset, dtwTemplates, model, training,
                   trainTimers, pendingWrites>>

\* a layout check that compares the lengths only
ensureFeatureLayout_lengthOnly(incomingNames) ==
  IF ~HasKey(dataset, "featureNames")
  THEN "TypeError: Cannot read properties of undefined (reading 'length')"
  ELSE IF Len(dataset.featureNames) = 0 THEN "ok"
  ELSE IF Len(dataset.featureNames) = Len(incomingNames)
       THEN "ok"
       ELSE "Feature layout mismatch. Clear dataset before mixing formats."

\* ensureFeatureLayout: "ok", or the message of what it throws
ensureFeatureLayout(incomingNames) ==
  IF ~HasKey(dataset, "featureNames")
  THEN "TypeError: Cannot read properties of undefined (reading 'length')"
  ELSE IF Len(dataset.featureNames) = 0 THEN "ok"
  ELSE IF Len(dataset.featureNames) = Len(incomingNames)
          /\ \A idx \in 1..Len(dataset.featureNames) :
               dataset.featureNames[idx] = incomingNames[idx]
       THEN "ok"
       ELSE "Feature layout mismatch. Clear dataset before mixing formats."

RECURSIVE PushTemplate(_, _, _, _)
\* next[trimmed].push(filtered) on the copy of dtwTemplates
PushTemplate(tpl, label, seq, i) ==
  IF i > Len(tpl) THEN Append(tpl, [label |-> label, exemplars |-> <<seq>>])
  ELSE IF tpl[i].label = label
       THEN [tpl EXCEPT ![i].exemplars = Append(tpl[i].exemplars, seq)]
       ELSE PushTemplate(tpl, label, seq, i + 1)

RECURSIVE StoredExemplars(_, _)
StoredExemplars(tpl, i) ==
  IF i > Len(tpl) THEN 0 ELSE Len(tpl[i].exemplars) + StoredExemplars(tpl, i + 1)

saveGestureExample ==
  /\ mlMounted
  /\ MlStopSensorsEffects
  /\ MlEnvUnchanged
  /\ UNCHANGED <<mlLastGyro, mlLabelName, model, training, trainTimers>>
  /\ LET trimmed == Trim(mlLabelName)
         filtered == movingAverage(mlBufferRef, 3)
         features == extractFeatureVector(filtered)
         entry == [label |-> trimmed, values |-> features.values,
                   durationMs |-> features.durationMs,
                   sampleCount |-> features.sampleCount]
         next == [featureNames |-> IF Len(dataset.featureNames) # 0
                                   THEN dataset.featureNames ELSE features.featureNames,
                  entries |-> Append(dataset.entries, entry)]
     IN IF trimmed = ""
        THEN /\ alert' = "Label required"
             /\ UNCHANGED <<mlBufferRef, dataset, dtwTemplates, pendingWrites>>
        ELSE IF Len(mlBufferRef) = 0
        THEN /\ alert' = "No gesture"
             /\ UNCHANGED <<mlBufferRef, dataset, dtwTemplates, pendingWrites>>
        ELSE IF ensureFeatureLayout(features.featureNames) # "ok"
        THEN /\ alert' = "Save failed: " \o ensureFeatureLayout(features.featureNames)
             /\ UNCHANGED <<mlBufferRef, dataset, dtwTemplates, pendingWrites>>
        ELSE /\ Len(dataset.entries) < MaxDatasetEntries
             /\ StoredExemplars(dtwTemplates, 1) < MaxDatasetEntries
             /\ MayPersist
             /\ dataset' = next
             /\ Persisted(next)
             /\ dtwTemplates' = PushTemplate(dtwTemplates, trimmed, filtered, 1)
             /\ mlBufferRef' = <<>>
             /\ alert' = "Saved"

\* the "Clear" of the "Clear dataset?" alert
clearDataset ==
  /\ mlMounted
  /\ dataset # initialDataset => MayPersist
  /\ dataset' = initialDataset
  /\ Persisted(initialDataset)
  /\ model' = NoModel
  /\ dtwTemplates' = <<>>
  /\ alert' = NoAlert
  /\ MlSensorsUnchanged /\ MlEnvUnchanged
  /\ UNCHANGED <<mlLastGyro, mlBufferRef, mlLabelName, training, trainTimers>>

clearModel ==
  /\ mlMounted
  /\ model' = NoModel
  /\ alert' = NoAlert
  /\ MlSensorsUnchanged /\ MlEnvUnchanged
  /\ UNCHANGED <<mlLastGyro, mlBufferRef, mlLabelName, dataset, dtwTemplates, training,
                 trainTimers, pendingWrites>>

\* Array.isArray(parsed.entries): the text of a file records which of its
\* values is an object where an array is expected
IsArrayEntries(text) == HasKey(Parse(text), "entries") /\ ~HasKey(text, "entriesIsObject")

\* a validation of the picked file that only looks at entries
DatasetFileError_entriesOnly(text) ==
  IF ~IsJson(text) THEN "JSON Parse error: Unexpected token"
  ELSE IF ~IsArrayEntries(text)
       THEN "File missing featureNames or entries."
       ELSE "ok"

\* JSON.parse and the check of the parsed object: "ok", or the message of
\* what is thrown
DatasetFileError(text) ==
  IF ~IsJson(text) THEN "JSON Parse error: Unexpected token"
  ELSE IF ~HasKey(Parse(text), "featureNames") \/ ~IsArrayEntries(text)
       THEN "File missing featureNames or entries."
       ELSE "ok"

\* importDataset from the point where the picked file has been read
ImportDatasetFile(file) ==
  /\ mlMounted
  /\ MlSensorsUnchanged /\ MlEnvUnchanged
  /\ UNCHANGED <<mlLastGyro, mlBufferRef, mlLabelName, dtwTemplates, model, training,
                 trainTimers>>
  /\ IF file.type # "success"
     THEN /\ alert' = "Import cancelled"
          /\ UNCHANGED <<dataset, pendingWrites>>
     ELSE IF DatasetFileError(file.text) # "ok"
     THEN /\ alert' = "Import failed: " \o DatasetFileError(file.text)
          /\ UNCHANGED <<dataset, pendingWrites>>
     ELSE /\ MayPersist
          /\ dataset' = Parse(file.text)
          /\ Persisted(Parse(file.text))
          /\ alert' = "Dataset loaded"

importDataset == \E file \in ImportFiles : ImportDatasetFile(file)

importOtherDataset == \E file \in OtherImportFiles : ImportDatasetFile(file)

\* importModel from the point where the picked file has been read
importModel ==
  \E parsed \in ModelPayloads :
    /\ mlMounted
    /\ MlSensorsUnchanged /\ MlEnvUnchanged
    /\ UNCHANGED <<mlLastGyro, mlBufferRef, mlLabelName, dataset, dtwTemplates, training,
                   trainTimers, pendingWrites>>
    /\ IF ~HasKey(parsed, "featureNames") \/ ~HasKey(parsed, "labels")
          \/ ~HasKey(parsed, "weights")
       THEN /\ alert' = "Import failed"
            /\ UNCHANGED model
       ELSE /\ model' = parsed
            /\ alert' = "Model ready"

\* "Train model": the button is disabled while training and below two entries
trainModelOnDevice ==
  /\ mlMounted
  /\ ~training
  /\ Len(dataset.entries) >= 2
  /\ training' = TRUE
  /\ trainTimers' = Append(trainTimers, dataset)
  /\ alert' = NoAlert
  /\ MlSensorsUnchanged /\ MlEnvUnchanged
  /\ UNCHANGED <<mlLastGyro, mlBufferRef, mlLabelName, dataset, dtwTemplates, model,
                 pendingWrites>>

\* trainSoftmaxModel(dataset, { epochs: 250, learningRate: 0.08 }); the model
\* of the two-label file is worked out once
TrainedTwoLabel == trainSoftmaxModel(TwoLabelDataset, TrainEpochs, TrainLearningRate)
TrainOnDevice(captured) ==
  IF captured = TwoLabelDataset THEN TrainedTwoLabel
  ELSE trainSoftmaxModel(captured, TrainEpochs, TrainLearningRate)

\* the callback of the setTimeout(..., 16) of trainModelOnDevice
TrainTimer ==
  /\ Len(trainTimers) > 0
  /\ LET trained == TrainOnDevice(Head(trainTimers))
     IN IF IsError(trained)
        THEN /\ alert' = "Training failed"
             /\ UNCHANGED model
        ELSE /\ model' = trained
             /\ alert' = "Model trained"
  /\ training' = FALSE
  /\ trainTimers' = Tail(trainTimers)
  /\ MlSensorsUnchanged /\ MlEnvUnchanged
  /\ UNCHANGED <<mlLastGyro, mlBufferRef, mlLabelName, dataset, dtwTemplates,
                 pendingWrites>>

predictGesture ==
  /\ mlMounted
  /\ MlStopSensorsEffects
  /\ MlEnvUnchanged
  /\ UNCHANGED <<mlLastGyro, mlLabelName, dataset, dtwTemplates, model, training,
                 trainTimers, pendingWrites>>
  /\ LET features == extractFeatureVector(movingAverage(mlBufferRef, 3))
     IN IF Len(mlBufferRef) = 0
        THEN alert' = "No gesture" /\ UNCHANGED mlBufferRef
        ELSE IF model = NoModel
        THEN alert' = "Model missing" /\ UNCHANGED mlBufferRef
        ELSE IF Len(features.featureNames) # Len(model.featureNames)
                \/ IsError(predictFromModel(model, features.values))
        THEN alert' = "Prediction failed" /\ UNCHANGED mlBufferRef
        ELSE alert' = "Prediction" /\ mlBufferRef' = <<>>

predictGestureBaseline ==
  /\ mlMounted
  /\ MlStopSensorsEffects
  /\ MlEnvUnchanged
  /\ UNCHANGED <<mlLastGyro, mlLabelName, dataset, dtwTemplates, model, training,
                 trainTimers, pendingWrites>>
  /\ IF Len(mlBufferRef) = 0
     THEN alert' = "No gesture" /\ UNCHANGED mlBufferRef
     ELSE IF Len(dtwTemplates) = 0
     THEN alert' = "No DTW templates" /\ UNCHANGED mlBufferRef
     ELSE IF \A i \in 1..Len(dtwTemplates) : Len(dtwTemplates[i].exemplars) = 0
     THEN alert' = "Baseline failed" /\ UNCHANGED mlBufferRef
     ELSE alert' = "Baseline prediction" /\ mlBufferRef' = <<>>

\* the hydration of the mount effect: getInfoAsync has answered
HydrateInfo ==
  /\ hydration.pc = "getInfoAsync"
  /\ hydration' = IF runtimeFile.exists THEN [pc |-> "readAsStringAsync"]
                  ELSE [pc |-> "done"]
  /\ alert' = NoAlert
  /\ MlSensorsUnchanged
  /\ UNCHANGED <<mlMounted, runtimeFile, mlLastGyro, mlBufferRef, mlLabelName, dataset,
                 dtwTemplates, model, training, trainTimers, pendingWrites>>

\* the read has answered
HydrateRead ==
  /\ hydration.pc = "readAsStringAsync"
  /\ hydration' = [pc |-> "parse", text |-> runtimeFile.text]
  /\ alert' = NoAlert
  /\ MlSensorsUnchanged
  /\ UNCHANGED <<mlMounted, runtimeFile, mlLastGyro, mlBufferRef, mlLabelName, dataset,
                 dtwTemplates, model, training, trainTimers, pendingWrites>>

\* JSON.parse and, when parsed.entries is a list, setDataset(parsed)
HydrateApply ==
  /\ hydration.pc = "parse"
  /\ hydration' = [pc |-> "done"]
  /\ alert' = NoAlert
  /\ MlSensorsUnchanged
  /\ UNCHANGED <<mlMounted, runtimeFile, mlLastGyro, mlBufferRef, mlLabelName,
                 dtwTemplates, model, training, trainTimers>>
  /\ IF IsJson(hydration.text) /\ HasKey(Parse(hydration.text), "entries")
     THEN /\ MayPersist
          /\ dataset' = Parse(hydration.text)
          /\ Persisted(Parse(hydration.text))
     ELSE UNCHANGED <<dataset, pendingWrites>>

\* a write of the persist effect completes
PersistWrite ==
  /\ Len(pendingWrites) > 0
  /\ runtimeFile' = [exists |-> TRUE, text |-> Head(pendingWrites)]
  /\ pendingWrites' = Tail(pendingWrites)
  /\ alert' = NoAlert
  /\ MlSensorsUnchanged
  /\ UNCHANGED <<mlMounted, hydration, mlLastGyro, mlBufferRef, mlLabelName, dataset,
                 dtwTemplates, model, training, trainTimers>>

\* the screen after mounting: both effects have run up to their first await
InitMlScreen ==
  /\ fn = "MLGestureScreen" /\ arg = <<>> /\ ret = 0
  /\ RecorderInit
  /\ AppIdle
  /\ mlMounted = TRUE
  /\ MlFresh
  /\ runtimeFile \in StoredFiles
  /\ hydration = [pc |-> "getInfoAsync"]
  /\ pendingWrites = <<Stringify(initialDataset)>>

NextMlScreen ==
  \/ (MlPressRecord /\ UNCHANGED <<fnVars, recorderVars, appVars>>)
  \/ (MlGyroEvent /\ UNCHANGED <<fnVars, recorderVars, appVars>>)
  \/ (MlAccelEvent /\ UNCHANGED <<fnVars, recorderVars, appVars>>)
  \/ (MlSetLabelName /\ UNCHANGED <<fnVars, recorderVars, appVars>>)
  \/ (saveGestureExample /\ UNCHANGED <<fnVars, recorderVars, appVars>>)
  \/ (clearDataset /\ UNCHANGED <<fnVars, recorderVars, appVars>>)
  \/ (clearModel /\ UNCHANGED <<fnVars, recorderVars, appVars>>)
  \/ (importDataset /\ UNCHANGED <<fnVars, recorderVars, appVars>>)
  \/ (importModel /\ UNCHANGED <<fnVars, recorderVars, appVars>>)
  \/ (trainModelOnDevice /\ UNCHANGED <<fnVars, recorderVars, appVars>>)
  \/ (TrainTimer /\ UNCHANGED <<fnVars, recorderVars, appVars>>)
  \/ (predictGesture /\ UNCHANGED <<fnVars, recorderVars, appVars>>)
  \/ (predictGestureBaseline /\ UNCHANGED <<fnVars, recorderVars, appVars>>)
  \/ (HydrateInfo /\ UNCHANGED <<fnVars, recorderVars, appVars>>)
  \/ (HydrateRead /\ UNCHANGED <<fnVars, recorderVars, appVars>>)
  \/ (HydrateApply /\ UNCHANGED <<fnVars, recorderVars, appVars>>)
  \/ (PersistWrite /\ UNCHANGED <<fnVars, recorderVars, appVars>>)

SpecMlScreen == InitMlScreen /\ [][NextMlScreen]_vars

\* the dataset lifecycle of the ML screen: capture, save, clear, import of
\* datasets and models, hydration and persistence, without training and
\* prediction
NextDataset ==
  \/ (MlPressRecord /\ UNCHANGED <<fnVars, recorderVars, appVars>>)
  \/ (MlGyroEvent /\ UNCHANGED <<fnVars, recorderVars, appVars>>)
  \/ (MlAccelEvent /\ UNCHANGED <<fnVars, recorderVars, appVars>>)
  \/ (MlSetLabelName /\ UNCHANGED <<fnVars, recorderVars, appVars>>)
  \/ (saveGestureExample /\ UNCHANGED <<fnVars, recorderVars, appVars>>)
  \/ (clearDataset /\ UNCHANGED <<fnVars, recorderVars, appVars>>)
  \/ (importDataset /\ UNCHANGED <<fnVars, recorderVars, appVars>>)
  \/ (importOtherDataset /\ UNCHANGED <<fnVars, recorderVars, appVars>>)
  \/ (importModel /\ UNCHANGED <<fnVars, recorderVars, appVars>>)
  \/ (clearModel /\ UNCHANGED <<fnVars, recorderVars, appVars>>)
  \/ (HydrateInfo /\ UNCHANGED <<fnVars, recorderVars, appVars>>)
  \/ (HydrateRead /\ UNCHANGED <<fnVars, recorderVars, appVars>>)
  \/ (HydrateApply /\ UNCHANGED <<fnVars, recorderVars, appVars>>)
  \/ (PersistWrite /\ UNCHANGED <<fnVars, recorderVars, appVars>>)

SpecDataset == InitMlScreen /\ [][NextDataset]_vars

\* the model lifecycle of the ML screen: hydration and persistence, import and
\* clearing of datasets and models, and training
NextTraining ==
  \/ (clearDataset /\ UNCHANGED <<fnVars, recorderVars, appVars>>)
  \/ (clearModel /\ UNCHANGED <<fnVars, recorderVars, appVars>>)
  \/ (importDataset /\ UNCHANGED <<fnVars, recorderVars, appVars>>)
  \/ (importModel /\ UNCHANGED <<fnVars, recorderVars, appVars>>)
  \/ (trainModelOnDevice /\ UNCHANGED <<fnVars, recorderVars, appVars>>)
  \/ (TrainTimer /\ UNCHANGED <<fnVars, recorderVars, appVars>>)
  \/ (HydrateInfo /\ UNCHANGED <<fnVars, recorderVars, appVars>>)
  \/ (HydrateRead /\ UNCHANGED <<fnVars, recorderVars, appVars>>)
  \/ (HydrateApply /\ UNCHANGED <<fnVars, recorderVars, appVars>>)
  \/ (PersistWrite /\ UNCHANGED <<fnVars, recorderVars, appVars>>)

\* C1 as stated: every dataset entry's values list has exactly as many
\* elements as the dataset's featureNames list.
Orig_C1 ==
  mlMounted =>
    /\ HasKey(dataset, "featureNames")
    /\ \A i \in 1..Len(dataset.entries) :
         Len(dataset.entries[i].values) = Len(dataset.featureNames)

\* ------------------------------------------- training from the screen
\* the harness calls and the screen, side by side
SpecTrainAction ==
  (InitTrainCalls \/ InitMlScreen) /\ [][NextTrainCalls \/ NextTraining]_vars

DistinctLabels(data) == { data.entries[i].label : i \in 1..Len(data.entries) }

\* no entries, or entries of fewer than two distinct labels
Untrainable(data) == Len(data.entries) = 0 \/ Cardinality(DistinctLabels(data)) < 2

ValidationErrors ==
  { "Cannot train model without any dataset entries",
    "Need at least two labels to train the model" }

RECURSIVE SumField(_, _, _)
SumField(perLabel, field, k) ==
  IF k > Len(perLabel) THEN 0 ELSE perLabel[k][field] + SumField(perLabel, field, k + 1)

\* the test entries of the finished call, by the split it made
TestEntriesOf(r) == EntriesAt(arg[1].entries, r.split.test, 1, <<>>)

CountLabel(es, label) == Cardinality({ k \in 1..Len(es) : es[k].label = label })

TplOf(obj) == [i \in 1..Len(obj) |-> [label |-> obj[i].label, arr |-> i]]
HeapOf(obj) == [i \in 1..Len(obj) |-> obj[i].exemplars]

AppendLabels == {"maps", "x", "y"}
AppendSeqs == { <<S0, S1>>, <<S1, S0, S0>> }

InitAppendCalls ==
  /\ fn = "none"
  /\ arg \in TemplateObjects \X AppendLabels \X AppendSeqs
  /\ ret = 0
  /\ ScreensIdle

\* the updater of saveExample runs on the published object prev = arg[1]
CallSaveAppend ==
  /\ fn = "none"
  /\ fn' = "saveExample"
  /\ ret' = SaveAppend(TplOf(arg[1]), HeapOf(arg[1]), arg[2], arg[3])
  /\ UNCHANGED <<arg, screenVars>>

NextAppendCalls == CallSaveAppend
SpecAppend == InitAppendCalls /\ [][NextAppendCalls]_vars

\* C12 as stated: the append publishes a new snapshot and the snapshot
\* published before it keeps, for every label, the exemplar list it had.
Orig_C12 ==
  fn = "saveExample" =>
    /\ View(ret.copy, ret.heap) # arg[1]
    /\ View(TplOf(arg[1]), ret.heap) = arg[1]

\* ---------------------------------------------------------------------------
\* C13: whenever no deferred statistics recomputation is pending, labelStats
\* has an entry exactly for the labels of templates, and each entry's
\* exemplarCount is the number of exemplars stored for that label (labelStats
\* is empty whenever templates is empty).
StatsInSync ==
  /\ DOMAIN labelStats = TplLabels(templates)
  /\ \A l \in TplLabels(templates) :
       labelStats[l].exemplarCount = Len(heap[ArrOf(templates, l)])

Orig_C13 == (fn = "none" /\ statsTimers = <<>>) => StatsInSync

\* ---------------------------------------------------------------------------
\* C14: across a single operation of the recorder screen, either every label
\* present before is still present with its former exemplar list as a prefix
\* of its new one, or the operation removes all labels at once.
ExemplarsOf(tpl, h, label) == h[ArrOf(tpl, label)]

StoreGrows ==
  \A l \in TplLabels(templates) :
    /\ l \in TplLabels(templates')
    /\ LET before == ExemplarsOf(templates, heap, l)
           after == ExemplarsOf(templates', heap', l)
       IN /\ Len(before) <= Len(after)
          /\ SubSeq(after, 1, Len(before)) = before

Orig_C14 == [][fn = "none" => (StoreGrows \/ templates' = <<>>)]_vars

\* ---------------------------------------------------------------------------
\* the layout error of ensureFeatureLayout as the "Save failed" alert shows it
LayoutError == "Save failed: Feature layout mismatch. Clear dataset before mixing formats."

\* a labelled, recorded gesture whose extracted feature names differ from the
\* non-empty featureNames of the dataset
LayoutDiffers ==
  /\ Trim(mlLabelName) # ""
  /\ Len(mlBufferRef) # 0
  /\ HasKey(dataset, "featureNames")
  /\ Len(dataset.featureNames) # 0
  /\ dataset.featureNames # ExtractedNames

\* C15: saving a gesture whose extracted feature-name list differs, in length
\* or at any position, from the featureNames of a dataset that already has a
\* schema fails with the feature-layout error and leaves the dataset, the DTW
\* template store and the recording buffer as they were.
Thm_C15 ==
  [][(LayoutDiffers /\ saveGestureExample)
       => /\ alert' = LayoutError
          /\ dataset' = dataset
          /\ dtwTemplates' = dtwTemplates
          /\ mlBufferRef' = mlBufferRef]_vars

\* the save of a recorded gesture has failed on a dataset whose layout has the
\* length of the extracted one and another last name
Wit_C15 ==
  /\ fn = "MLGestureScreen"
  /\ alert = LayoutError
  /\ Len(mlBufferRef) # 0
  /\ dataset.featureNames = RenamedLayout
  /\ extractFeatureVector(movingAverage(mlBufferRef, 3)).featureNames = ExtractedNames
  /\ Len(dataset.featureNames) = Len(ExtractedNames)

\* ---------------------------------------------------------------------------
ImportError == "Import failed: File missing featureNames or entries."

\* a picked file that parses to an object in which featureNames is absent or
\* entries is not a list
BadDatasetFile(file) ==
  /\ file.type = "success"
  /\ IsJson(file.text)
  /\ \/ ~HasKey(Parse(file.text), "featureNames")
     \/ ~HasKey(Parse(file.text), "entries")
     \/ HasKey(file.text, "entriesIsObject")

\* C16: importing a dataset payload in which featureNames is absent or entries
\* is not a list fails with the validation error and leaves the dataset, the
\* model and the template store unchanged.
Thm_C16 ==
  [][\A file \in ImportFiles \cup OtherImportFiles :
       (BadDatasetFile(file) /\ ImportDatasetFile(file))
         => /\ alert' = ImportError
            /\ dataset' = dataset
            /\ model' = model
            /\ dtwTemplates' = dtwTemplates]_vars

\* a rejected import on a screen that holds entries, a model and templates
Wit_C16 ==
  /\ fn = "MLGestureScreen"
  /\ alert = ImportError
  /\ Len(dataset.entries) > 0
  /\ model # NoModel
  /\ dtwTemplates # <<>>

\* ---------------------------------------------------------------------------
\* the distribution is ordered by non-increasing confidence
NonIncreasing(dist) ==
  \A i \in 1..(Len(dist) - 1) :
    /\ ~IsNaN(dist[i].confidence) /\ dist[i].confidence # Undef
    /\ ~IsNaN(dist[i + 1].confidence) /\ dist[i + 1].confidence # Undef
    /\ dist[i].confidence >= dist[i + 1].confidence

\* C17 as stated: for every model with at least one label and every input,
\* the distribution of predictFromModel holds each model label exactly once,
\* in the order of non-increasing confidence, and the returned label and
\* confidence are those of its first element.
Orig_C17 ==
  (fn = "predictFromModel" /\ ~IsError(ret)) =>
    LET labels == arg[1].labels
        dist == ret.distribution
    IN /\ Len(dist) = Len(labels)
       /\ \A l \in 1..Len(labels) :
            Cardinality({ i \in 1..Len(dist) : dist[i].label = labels[l] }) = 1
       /\ NonIncreasing(dist)
       /\ ret.label = dist[1].label
       /\ ret.confidence = dist[1].confidence

\* ---------------------------------------------------------------------------
\* C18: a successful training run with epochs = E returns a model whose
\* lossHistory has exactly E elements, one mean loss per epoch, and whose
\* trainingSamples is the number of dataset entries.
Thm_C18 ==
  (fn = "trainSoftmaxModel" /\ ~IsError(ret)) =>
    /\ Len(ret.lossHistory) = arg[2]
    /\ ret.trainingSamples = Len(arg[1].entries)

\* a run of the most epochs on the most entries, one of them too short, has
\* returned a model
Wit_C18 ==
  /\ fn = "trainSoftmaxModel"
  /\ ~IsError(ret)
  /\ arg[2] = MaxEpochs
  /\ Len(arg[1].entries) = MaxTrainEntries
  /\ \E i \in 1..Len(arg[1].entries) : Len(arg[1].entries[i].values) < Len(arg[1].featureNames)
  /\ Len(ret.lossHistory) = MaxEpochs

\* ------------------------------------------------ calls of the smoothing
MaxWindow == 5           \* largest window drawn as an input

\* sample j of a marker sequence is 1 on axis j and 0 on the others, so that
\* the samples averaged into an output sample can be read off its axes
MarkerSample(j) ==
  [k \in {"t", "ax", "ay", "az", "gx", "gy", "gz"} |->
     IF k = "t" THEN SensorInterval * (j - 1)
     ELSE IF k = SENSOR_AXES[j].key THEN FP ELSE 0]

MarkerSeq(n) == [j \in 1..n |-> MarkerSample(j)]

\* the marker sequences of every length up to the number of axes, and
\* sequences of up to three equal samples
SmoothSeqs ==
  { MarkerSeq(n) : n \in 0..Len(SENSOR_AXES) }
  \cup { [j \in 1..n |-> Sample(SensorInterval * (j - 1), FP, 0, FP)] : n \in 1..3 }

InitSmoothCalls ==
  /\ fn = "none"
  /\ arg \in SmoothSeqs \X (0..MaxWindow)
  /\ ret = 0
  /\ ScreensIdle

CallMovingAverage ==
  /\ fn = "none"
  /\ fn' = "movingAverage"
  /\ ret' = movingAverage(arg[1], arg[2])
  /\ UNCHANGED <<arg, screenVars>>

CallMovingAverageFilter ==
  /\ fn = "none"
  /\ fn' = "movingAverageFilter"
  /\ ret' = movingAverageFilter(arg[1], arg[2])
  /\ UNCHANGED <<arg, screenVars>>

NextSmoothCalls == CallMovingAverage \/ CallMovingAverageFilter
SpecSmooth == InitSmoothCalls /\ [][NextSmoothCalls]_vars

\* C19 as stated: movingAverage and movingAverageFilter return their input
\* unchanged whenever window <= 1 or the sequence has at most 2 samples.
Orig_C19 ==
  (fn \in {"movingAverage", "movingAverageFilter"} /\ (arg[2] <= 1 \/ Len(arg[1]) <= 2))
    => ret = arg[1]

\* ---------------------------------------------------------------------------
\* the samples averaged into output sample i of a marker sequence
AveragedInto(out, i) ==
  { j \in 1..Len(out) : out[i][SENSOR_AXES[j].key] > 0 }

IsMarkerCall == arg[1] = MarkerSeq(Len(arg[1]))

\* the output has the length and the timestamps of the input
KeepsShape ==
  /\ Len(ret) = Len(arg[1])
  /\ \A i \in 1..Len(ret) : ret[i].t = arg[1][i].t

\* C20 as stated: for an even window > 1, a sequence longer than 2 and an
\* index i far from both ends, movingAverage averages fewer samples before i
\* than after i; for every window the output has the input's length and output
\* sample i carries the timestamp of input sample i.
Orig_C20 ==
  fn = "movingAverage" =>
    /\ KeepsShape
    /\ (IsMarkerCall /\ arg[2] > 1 /\ arg[2] % 2 = 0 /\ Len(arg[1]) > 2) =>
         \A i \in 1..Len(ret) :
           (i - arg[2] >= 1 /\ i + arg[2] <= Len(ret)) =>
             Cardinality({ j \in AveragedInto(ret, i) : j < i })
               < Cardinality({ j \in AveragedInto(ret, i) : j > i })

\* C20, amended: for every window > 1 and every sequence longer than 2,
\* movingAverage averages into output i the samples from
\* max(0, i - floor(window / 2)) to min(len - 1, i + floor(window / 2)), as many
\* before i as after i when i is far from both ends, for even windows too; for
\* every window the output has the input's length and output sample i carries
\* the timestamp of input sample i.
Thm_C20 ==
  fn = "movingAverage" =>
    /\ KeepsShape
    /\ (IsMarkerCall /\ arg[2] > 1 /\ Len(arg[1]) > 2) =>
         \A i \in 1..Len(ret) :
           AveragedInto(ret, i) =
             Max2(1, i - arg[2] \div 2) .. Min2(Len(ret), i + arg[2] \div 2)

\* an even window on the longest marker sequence, whose third output sample
\* averages as many samples before it as after it
Wit_C20 ==
  /\ fn = "movingAverage"
  /\ IsMarkerCall
  /\ arg[2] = 2
  /\ Len(arg[1]) = Len(SENSOR_AXES)
  /\ AveragedInto(ret, 3) = {2, 3, 4}

\* ------------------------------------------- calls of extractFeatureVector
MaxExtractLen == 3       \* longest sequence drawn as an input of the extraction

\* samples at three timestamps, one of them with an ax that is not a number
ExtractSamples ==
  { Sample(0, 0, 0, 0), Sample(0, FP, 0, FP), Sample(SensorInterval, FP, 0, 0),
    Sample(2 * SensorInterval, 0, FP, 0), Sample(0, NaN, FP, 0) }

InitExtractCalls ==
  /\ fn = "none"
  /\ arg \in SeqsUpTo(ExtractSamples, MaxExtractLen)
  /\ ret = 0
  /\ ScreensIdle

CallExtract ==
  /\ fn = "none"
  /\ fn' = "extractFeatureVector"
  /\ ret' = extractFeatureVector(arg)
  /\ UNCHANGED <<arg, screenVars>>

SpecExtract == InitExtractCalls /\ [][CallExtract]_vars

\* C21: for every input sequence, the empty and the single-sample one
\* included, extractFeatureVector returns the same ordered list of 51 feature
\* names and a values list of exactly 51 elements.
Thm_C21 ==
  fn = "extractFeatureVector" =>
    /\ ~IsError(ret)
    /\ Len(ret.featureNames) = 51
    /\ ret.featureNames = ExtractedNames
    /\ \A i, j \in 1..Len(ret.featureNames) :
         i # j => ret.featureNames[i] # ret.featureNames[j]
    /\ Len(ret.values) = 51

\* the extraction of the empty sequence has returned
Wit_C21 ==
  /\ fn = "extractFeatureVector"
  /\ arg = <<>>
  /\ Len(ret.values) = 51
  /\ \A i \in 1..Len(ret.values) : ret.values[i] = 0

\* -------------------------------- nearest neighbour baseline (gesture-ml.ts)
RECURSIVE SqDistFrom(_, _, _, _)
\* entry.values.reduce((sum, v, idx) => sum + (v - (values[idx] ?? 0)) ** 2, 0)
SqDistFrom(entryValues, values, idx, sum) ==
  IF idx > Len(entryValues) THEN sum
  ELSE LET d == Sub(entryValues[idx], IF idx <= Len(values) THEN values[idx] ELSE 0)
       IN SqDistFrom(entryValues, values, idx + 1, Add(sum, Mul(d, d)))

\* w = Math.exp(-dist) of one dataset entry
EntryWeight(entry, values) ==
  Exp(Sub(0, Sqrt(SqDistFrom(entry.values, values, 1, 0))))

RECURSIVE PerLabelWeights(_, _, _, _)
\* perLabelWeights in the order of its keys: each entry's weight is added to
\* the weight of its label
PerLabelWeights(entries, values, i, acc) ==
  IF i > Len(entries) THEN acc
  ELSE LET w == EntryWeight(entries[i], values)
           label == entries[i].label
       IN PerLabelWeights(entries, values, i + 1,
            IF \E k \in 1..Len(acc) : acc[k].label = label
            THEN [k \in 1..Len(acc) |->
                    IF acc[k].label = label
                    THEN [label |-> label, weight |-> Add(acc[k].weight, w)]
                    ELSE acc[k]]
            ELSE Append(acc, [label |-> label, weight |-> Add(0, w)]))

RECURSIVE WeightSum(_, _, _)
WeightSum(perLabel, i, sum) ==
  IF i > Len(perLabel) THEN sum
  ELSE WeightSum(perLabel, i + 1, Add(sum, perLabel[i].weight))

predictNearestNeighbor(data, values) ==
  IF Len(data.entries) = 0 THEN Error("Dataset is empty")
  ELSE LET perLabelWeights == PerLabelWeights(data.entries, values, 1, <<>>)
           sum == WeightSum(perLabelWeights, 1, 0)
           total == IF IsNaN(sum) \/ sum = 0 THEN FP ELSE sum
           distribution ==
             SortDistribution(
               [k \in 1..Len(perLabelWeights) |->
                  [label |-> perLabelWeights[k].label,
                   confidence |-> Div(perLabelWeights[k].weight, total)]], 1, <<>>)
       IN [label |-> distribution[1].label,
           confidence |-> distribution[1].confidence,
           distribution |-> distribution]

InitNeighborCalls ==
  /\ fn = "none"
  /\ arg \in TrainDatasets \X QueryVectors
  /\ ret = 0
  /\ ScreensIdle

CallNearestNeighbor ==
  /\ fn = "none"
  /\ fn' = "predictNearestNeighbor"
  /\ ret' = predictNearestNeighbor(arg[1], arg[2])
  /\ UNCHANGED <<arg, screenVars>>

SpecNeighbor == InitNeighborCalls /\ [][CallNearestNeighbor]_vars

\* the sum of the weights of the entries of one label, in entry order
RECURSIVE OwnWeight(_, _, _, _)
OwnWeight(entries, values, label, i) ==
  IF i = 0 THEN 0
  ELSE IF entries[i].label = label
       THEN Add(OwnWeight(entries, values, label, i - 1), EntryWeight(entries[i], values))
       ELSE OwnWeight(entries, values, label, i - 1)

\* every label's share of the distribution is the weight of its own entries
OwnLabelOnly ==
  LET entries == arg[1].entries
      labels == LabelsFrom(entries, 1, <<>>)
      sum == WeightSum([k \in 1..Len(labels) |->
                          [weight |-> OwnWeight(entries, arg[2], labels[k], Len(entries))]],
                       1, 0)
      total == IF IsNaN(sum) \/ sum = 0 THEN FP ELSE sum
  IN /\ Len(ret.distribution) = Len(labels)
     /\ \A k \in 1..Len(labels) :
          \E d \in 1..Len(ret.distribution) :
            /\ ret.distribution[d].label = labels[k]
            /\ ret.distribution[d].confidence =
                 Div(OwnWeight(entries, arg[2], labels[k], Len(entries)), total)

\* C22 as stated: in predictNearestNeighbor an entry whose values equal the
\* query contributes the raw weight 1, an entry whose values differ from the
\* query contributes strictly less, and every weight goes to its own label.
Orig_C22 ==
  (fn = "predictNearestNeighbor" /\ ~IsError(ret)) =>
    /\ \A i \in 1..Len(arg[1].entries) :
         LET entry == arg[1].entries[i]
         IN IF entry.values = arg[2]
            THEN EntryWeight(entry, arg[2]) = FP
            ELSE Lt(EntryWeight(entry, arg[2]), FP)
    /\ OwnLabelOnly

\* ------------------------------------------- the evaluation CLI (eval-ml.ts)
\* Number(text) of the flag values drawn; a flag given without a value reads
\* "true"
NumberOf(text) ==
  CASE text = "0.5" -> FP \div 2
    [] text = "1" -> FP
    [] text = "2" -> 2 * FP
    [] text = "0" -> 0
    [] text = "-1" -> 0 - FP
    [] OTHER -> NaN

NoFlag == "<undefined>"

\* flags.x ? Number(flags.x) : fallback; the empty string is falsy
FlagNumber(text, fallback) ==
  IF text = NoFlag \/ text = "" THEN fallback ELSE NumberOf(text)

\* the passes of for (epoch = 0; epoch < epochs; epoch++) for a number epochs
LoopPasses(epochs) ==
  IF IsNaN(epochs) \/ epochs <= 0 THEN 0 ELSE (epochs + FP - 1) \div FP

CliTestFractions == { NoFlag, "0.5", "1", "abc" }
CliEpochs == { NoFlag, "1", "0", "-1", "true" }
CliLearningRates == { NoFlag, "0.5", "-1", "abc" }

\* the dataset file: text that is not JSON, an object without featureNames,
\* and a dataset of three entries
CliFiles ==
  { NotJson,
    Stringify([entries |-> << [label |-> "a", values |-> <<0>>] >>]),
    Stringify([featureNames |-> FeatureNames1,
               entries |-> << [label |-> "a", values |-> <<0>>],
                              [label |-> "b", values |-> <<FP>>],
                              [label |-> "a", values |-> <<0>>] >>]) }

CliDefaultTestFraction == 200    \* 0.2
CliDefaultEpochs == 250
CliDefaultLearningRate == 80     \* 0.08

\* the orders shuffleInPlace can leave n indices in: every one
Shuffles(n) ==
  { p \in [1..n -> 1..n] : \A i, j \in 1..n : i # j => p[i] # p[j] }

\* main() and its catch, the evaluation it awaits given: the exit code and
\* what is written to stderr
Main(input, evaluated) ==
  LET testFraction == FlagNumber(input.testFraction, CliDefaultTestFraction)
      data == Parse(input.file)
  IN IF ~input.positional \/ input.help
     THEN [exit |-> IF input.help THEN 0 ELSE 1, stderr |-> ""]
     ELSE IF ~(~IsNaN(testFraction) /\ testFraction > 0 /\ testFraction < FP)
     THEN [exit |-> 1, stderr |-> "testFraction must be between 0 and 1 (e.g. 0.2)"]
     ELSE IF ~IsJson(input.file)
     THEN [exit |-> 1, stderr |-> "Unexpected token"]
     ELSE IF ~HasKey(data, "featureNames") \/ ~HasKey(data, "entries")
     THEN [exit |-> 1, stderr |-> "Dataset JSON missing featureNames or entries."]
     ELSE IF Len(data.entries) = 0
     THEN [exit |-> 1, stderr |-> "Cannot evaluate model: dataset is empty"]
     ELSE IF IsError(evaluated)
     THEN [exit |-> 1, stderr |-> evaluated.error]
     ELSE [exit |-> 0, stderr |-> ""]

\* the run of eval-ml for the order the shuffle produced: the evaluation is
\* called with Number(flags.testFraction), Number(flags.epochs) and
\* Number(flags.lr) or their defaults
EvalCli(input, indices) ==
  Main(input,
       EvaluateShuffled(Parse(input.file), indices,
                        FlagNumber(input.testFraction, CliDefaultTestFraction),
                        LoopPasses(FlagNumber(input.epochs, CliDefaultEpochs * FP)),
                        FlagNumber(input.lr, CliDefaultLearningRate)))

InitCliCalls ==
  /\ fn = "none"
  /\ arg \in [positional : BOOLEAN, help : {FALSE}, testFraction : CliTestFractions,
              epochs : CliEpochs, lr : CliLearningRates, file : CliFiles]
            \cup [positional : BOOLEAN, help : {TRUE}, testFraction : {NoFlag},
                  epochs : {NoFlag}, lr : {NoFlag}, file : CliFiles]
  /\ ret = 0
  /\ ScreensIdle

CallEvalCli ==
  /\ fn = "none"
  /\ fn' = "eval-ml"
  /\ \E indices \in Shuffles(IF IsJson(arg.file) /\ HasKey(Parse(arg.file), "entries")
                             THEN Len(Parse(arg.file).entries) ELSE 0) :
       ret' = EvalCli(arg, indices)
  /\ UNCHANGED <<arg, screenVars>>

SpecCli == InitCliCalls /\ [][CallEvalCli]_vars

\* a flag value that is not acceptable: a test fraction outside (0, 1), epochs
\* or a learning rate that is not a positive number
BadFlags(input) ==
  LET testFraction == FlagNumber(input.testFraction, CliDefaultTestFraction)
      epochs == FlagNumber(input.epochs, CliDefaultEpochs * FP)
      learningRate == FlagNumber(input.lr, CliDefaultLearningRate)
  IN \/ IsNaN(testFraction) \/ testFraction <= 0 \/ testFraction >= FP
     \/ IsNaN(epochs) \/ epochs <= 0
     \/ IsNaN(learningRate) \/ learningRate <= 0

BadShape(input) ==
  \/ ~IsJson(input.file)
  \/ ~HasKey(Parse(input.file), "featureNames")
  \/ ~HasKey(Parse(input.file), "entries")

\* C23 as stated, in the direction of the failures: a run that is given a
\* dataset path and no --help exits with code 1 when the dataset has a bad
\* shape or one of --testFraction, --epochs and --lr has a bad value.
Orig_C23 ==
  (fn = "eval-ml" /\ arg.positional /\ ~arg.help /\ (BadShape(arg) \/ BadFlags(arg)))
    => ret.exit = 1

\* ------------------------------------- the epoch loop of trainSoftmaxModel
\* the statements before the loop: labels, means, deviations, normalized rows
TrainSetup(data) ==
  LET entries == data.entries
      featureCount == Len(data.featureNames)
      featureMeans == DivEachN(SumEntries(Zeros(featureCount), entries, 1),
                               Len(entries), 1, <<>>)
      featureStd == StdFrom(SumSqDev(Zeros(featureCount), entries, featureMeans, 1),
                            Len(entries), 1, <<>>)
  IN [labels |-> LabelsFrom(entries, 1, <<>>),
      featureMeans |-> featureMeans,
      featureStd |-> featureStd,
      normalized |-> NormalizeEntries(entries, featureMeans, featureStd, 1, <<>>)]

\* the loop as it starts: epoch and rowIdx count from 1; scored holds what the
\* rows of this epoch added to gradW, gradB and loss; updates counts the
\* update steps applied
LoopStart(data) ==
  LET labelCount == Len(LabelsFrom(data.entries, 1, <<>>))
  IN [epoch |-> 1, rowIdx |-> 1,
      weights |-> ZeroRows(labelCount, Len(data.featureNames)),
      biases |-> Zeros(labelCount),
      scored |-> <<>>, lossHistory |-> <<>>, updates |-> 0]

\* a row step that applies the row's gradient at once
RowStep_perRow(loop, data, learningRate) ==
  LET setup == TrainSetup(data)
      row == ScoreRows(loop.weights, loop.biases, <<setup.normalized[loop.rowIdx]>>,
                       <<data.entries[loop.rowIdx]>>, setup.labels, 1, <<>>)
      scale == DivN(learningRate, Len(data.entries))
  IN [loop EXCEPT !.rowIdx = @ + 1,
                  !.scored = @ \o row,
                  !.weights = UpdateWeights(@, row, <<setup.normalized[loop.rowIdx]>>,
                                            scale, 1, <<>>),
                  !.biases = UpdateBiases(@, row, scale, 1, <<>>)]

\* one call of the normalized.forEach callback: the row is scored with the
\* current weights and its errors and loss are accumulated
RowStep(loop, data, learningRate) ==
  LET setup == TrainSetup(data)
      row == ScoreRows(loop.weights, loop.biases, <<setup.normalized[loop.rowIdx]>>,
                       <<data.entries[loop.rowIdx]>>, setup.labels, 1, <<>>)
  IN [loop EXCEPT !.rowIdx = @ + 1, !.scored = @ \o row]

\* the statements after the forEach: the update and lossHistory.push
UpdateStep(loop, data, learningRate) ==
  LET setup == TrainSetup(data)
      scale == DivN(learningRate, Len(data.entries))
  IN [epoch |-> loop.epoch + 1, rowIdx |-> 1,
      weights |-> UpdateWeights(loop.weights, loop.scored, setup.normalized, scale, 1, <<>>),
      biases |-> UpdateBiases(loop.biases, loop.scored, scale, 1, <<>>),
      scored |-> <<>>,
      lossHistory |-> Append(loop.lossHistory,
                             DivN(LossSum(loop.scored, 1, 0), Len(data.entries))),
      updates |-> loop.updates + 1]

InitLoopCalls ==
  /\ fn = "none"
  /\ arg \in TrainDatasets \X (0..MaxEpochs)
  /\ ret = 0
  /\ ScreensIdle

\* the call up to the loop
LoopEnter ==
  /\ fn = "none"
  /\ IF TrainValidation(arg[1]) # "ok"
     THEN /\ fn' = "trainSoftmaxModel"
          /\ ret' = Error(TrainValidation(arg[1]))
     ELSE /\ fn' = "epochLoop"
          /\ ret' = LoopStart(arg[1])
  /\ UNCHANGED <<arg, screenVars>>

LoopRow ==
  /\ fn = "epochLoop"
  /\ ret.epoch <= arg[2]
  /\ ret.rowIdx <= Len(arg[1].entries)
  /\ ret' = RowStep(ret, arg[1], DefaultLearningRate)
  /\ UNCHANGED <<fn, arg, screenVars>>

LoopUpdate ==
  /\ fn = "epochLoop"
  /\ ret.epoch <= arg[2]
  /\ ret.rowIdx > Len(arg[1].entries)
  /\ ret' = UpdateStep(ret, arg[1], DefaultLearningRate)
  /\ UNCHANGED <<fn, arg, screenVars>>

\* the return statement
LoopReturn ==
  /\ fn = "epochLoop"
  /\ ret.epoch > arg[2]
  /\ fn' = "trainSoftmaxModel"
  /\ ret' = LET setup == TrainSetup(arg[1])
            IN [labels |-> setup.labels,
                featureNames |-> arg[1].featureNames,
                featureMeans |-> setup.featureMeans,
                featureStd |-> setup.featureStd,
                weights |-> ret.weights,
                biases |-> ret.biases,
                trainingSamples |-> Len(arg[1].entries),
                lossHistory |-> ret.lossHistory]
  /\ UNCHANGED <<arg, screenVars>>

NextLoopCalls == LoopEnter \/ LoopRow \/ LoopUpdate \/ LoopReturn
SpecLoop == InitLoopCalls /\ [][NextLoopCalls]_vars

\* C24: within an epoch the weights and biases stay unchanged while the rows
\* are scored; they are updated only in the step after the last row, from a
\* gradient that holds every row of the batch; a run of E epochs has applied
\* exactly E update steps when it returns, and it returns what the batch
\* update of every epoch computes.
Thm_C24 ==
  [][/\ (fn = "epochLoop" /\ fn' = "epochLoop" /\ ret'.epoch = ret.epoch)
          => (ret'.weights = ret.weights /\ ret'.biases = ret.biases
              /\ ret'.updates = ret.updates)
     /\ (fn = "epochLoop" /\ fn' = "epochLoop" /\ ret'.epoch # ret.epoch)
          => /\ Len(ret.scored) = Len(arg[1].entries)
             /\ ret.scored = ScoreRows(ret.weights, ret.biases,
                                       TrainSetup(arg[1]).normalized, arg[1].entries,
                                       TrainSetup(arg[1]).labels, 1, <<>>)
             /\ ret'.updates = ret.updates + 1
             /\ ret'.scored = <<>>
     /\ (fn = "epochLoop" /\ fn' = "trainSoftmaxModel")
          => /\ ret.updates = arg[2]
             /\ ret.scored = <<>>
             /\ ret' = trainSoftmaxModel(arg[1], arg[2], DefaultLearningRate)]_vars

\* the second update of a run of two epochs on three entries has moved the
\* weights
Wit_C24 ==
  /\ fn = "epochLoop"
  /\ Len(arg[1].entries) = MaxTrainEntries
  /\ ret.updates = 2
  /\ ret.weights # ZeroRows(Len(ret.weights), Len(arg[1].featureNames))

\* ----------------------------------------- a reload of the ML screen
\* the screen mounts over a runtime file; arg remembers the file as it was
\* stored at the mount.  The user records and types labels, but starts no
\* dataset operation.
InitReload ==
  /\ fn = "MLGestureScreen" /\ ret = 0
  /\ RecorderInit
  /\ AppIdle
  /\ mlMounted = TRUE
  /\ MlFresh
  /\ runtimeFile \in StoredFiles
  /\ arg = runtimeFile
  /\ hydration = [pc |-> "getInfoAsync"]
  /\ pendingWrites = <<Stringify(initialDataset)>>

NextReload ==
  \/ (HydrateInfo /\ UNCHANGED <<fnVars, recorderVars, appVars>>)
  \/ (HydrateRead /\ UNCHANGED <<fnVars, recorderVars, appVars>>)
  \/ (HydrateApply /\ UNCHANGED <<fnVars, recorderVars, appVars>>)
  \/ (PersistWrite /\ UNCHANGED <<fnVars, recorderVars, appVars>>)
  \/ (MlPressRecord /\ UNCHANGED <<fnVars, recorderVars, appVars>>)
  \/ (MlGyroEvent /\ UNCHANGED <<fnVars, recorderVars, appVars>>)
  \/ (MlAccelEvent /\ UNCHANGED <<fnVars, recorderVars, appVars>>)
  \/ (MlSetLabelName /\ UNCHANGED <<fnVars, recorderVars, appVars>>)

SpecReload == InitReload /\ [][NextReload]_vars

\* a non-empty dataset was stored when the screen mounted
StoredAtMount ==
  /\ arg.exists
  /\ IsJson(arg.text)
  /\ HasKey(Parse(arg.text), "entries")
  /\ Len(Parse(arg.text).entries) > 0

\* the hydration and every write of the persist effect have completed
ReloadSettled == hydration.pc = "done" /\ pendingWrites = <<>>

\* C25: when a non-empty dataset is stored at the mount and no dataset
\* operation is performed, then once the hydration read and the persistence
\* writes have completed, the dataset in memory and the runtime file both
\* equal the dataset that was stored.
Orig_C25 ==
  (StoredAtMount /\ ReloadSettled)
    => (dataset = Parse(arg.text) /\ runtimeFile = arg)

\* ------------------------------------- clearing while a training is due
\* the ML screen with a note in ret: 1 from a confirmed "Clear dataset" until
\* the next press of "Train model" or the next model import, 0 otherwise
NextClear ==
  \/ (clearDataset /\ ret' = 1 /\ UNCHANGED <<fn, arg, recorderVars, appVars>>)
  \/ (trainModelOnDevice /\ ret' = 0 /\ UNCHANGED <<fn, arg, recorderVars, appVars>>)
  \/ (importModel /\ ret' = 0 /\ UNCHANGED <<fn, arg, recorderVars, appVars>>)
  \/ (clearModel /\ UNCHANGED <<fnVars, recorderVars, appVars>>)
  \/ (importDataset /\ UNCHANGED <<fnVars, recorderVars, appVars>>)
  \/ (TrainTimer /\ UNCHANGED <<fnVars, recorderVars, appVars>>)
  \/ (HydrateInfo /\ UNCHANGED <<fnVars, recorderVars, appVars>>)
  \/ (HydrateRead /\ UNCHANGED <<fnVars, recorderVars, appVars>>)
  \/ (HydrateApply /\ UNCHANGED <<fnVars, recorderVars, appVars>>)
  \/ (PersistWrite /\ UNCHANGED <<fnVars, recorderVars, appVars>>)

SpecClear == InitMlScreen /\ [][NextClear]_vars

\* C26: from a confirmed "Clear dataset" until the next press of "Train model"
\* or the next model import, the model is null, also when the timer of a
\* training that was started before the clear is still due.
Orig_C26 == ret = 1 => model = NoModel

\* C27: evaluateSoftmaxOnDataset fails only when the dataset is empty or fewer
\* than two training entries remain after the split: for a dataset of at least
\* two distinct labels and a shuffle that leaves at least two training
\* entries it returns an evaluation result and a model.
Orig_C27 ==
  (fn = "evaluateSoftmaxOnDataset"
     /\ Cardinality(DistinctLabels(arg[1])) >= 2
     /\ Len(ret.split.train) >= 2)
    => (~HasKey(ret, "error") /\ HasKey(ret, "result") /\ HasKey(ret, "model"))

\* ------------------------------------------ the sensors of both screens
\* both screens are mounted; a press is handled by the handler of the render
\* that was on the screen, so every handler may run in every state
RecorderUntouched ==
  UNCHANGED <<recording, accelSub, gyroSub, accelListeners, gyroListeners, lastGyro,
              bufferRef, labelName, templates, heap, labelStats, statsTimers>>

\* a call of startSensors of gesture.tsx: it adds the listeners, or returns at
\* its first line
StartSensorsCall ==
  \/ startSensors
  \/ ((accelSub \/ gyroSub) /\ launched' = NoLabel /\ RecorderUntouched)

\* a call of startSensors of ml.tsx
MlStartSensorsCall ==
  \/ MlStartSensors
  \/ /\ mlMounted
     /\ mlAccelSub \/ mlGyroSub
     /\ alert' = NoAlert
     /\ MlSensorsUnchanged /\ MlEnvUnchanged
     /\ UNCHANGED <<mlLastGyro, mlBufferRef, mlLabelName, dataset, dtwTemplates, model,
                    training, trainTimers, pendingWrites>>

InitSensors ==
  /\ FnIdle
  /\ RecorderInit
  /\ AppIdle
  /\ mlMounted = TRUE
  /\ MlFresh
  /\ runtimeFile = NoFile
  /\ hydration = [pc |-> "done"]
  /\ pendingWrites = <<>>

NextSensors ==
  \/ (StartSensorsCall /\ UNCHANGED <<fnVars, mlVars, appVars>>)
  \/ (stopSensors /\ UNCHANGED <<fnVars, mlVars, appVars>>)
  \/ (saveExample /\ UNCHANGED <<fnVars, mlVars, appVars>>)
  \/ (stopAndClassify /\ UNCHANGED <<fnVars, mlVars, appVars>>)
  \/ (GyroEvent /\ UNCHANGED <<fnVars, mlVars, appVars>>)
  \/ (AccelEvent /\ UNCHANGED <<fnVars, mlVars, appVars>>)
  \/ (MlStartSensorsCall /\ UNCHANGED <<fnVars, recorderVars, appVars>>)
  \/ (MlStopSensors /\ UNCHANGED <<fnVars, recorderVars, appVars>>)
  \/ (saveGestureExample /\ UNCHANGED <<fnVars, recorderVars, appVars>>)
  \/ (predictGesture /\ UNCHANGED <<fnVars, recorderVars, appVars>>)
  \/ (predictGestureBaseline /\ UNCHANGED <<fnVars, recorderVars, appVars>>)
  \/ (MlGyroEvent /\ UNCHANGED <<fnVars, recorderVars, appVars>>)
  \/ (MlAccelEvent /\ UNCHANGED <<fnVars, recorderVars, appVars>>)
  \/ (MlSetLabelName /\ UNCHANGED <<fnVars, recorderVars, appVars>>)
  \/ (PersistWrite /\ UNCHANGED <<fnVars, recorderVars, appVars>>)

SpecSensors == InitSensors /\ [][NextSensors]_vars

\* C28: on each screen at most one accelerometer listener and at most one
\* gyroscope listener are subscribed at any time; none is subscribed once the
\* subscription references have been cleared by stopSensors; and the recording
\* buffer grows only in a state in which the screen's listener is subscribed.
Thm_C28 ==
  [][/\ accelListeners' <= 1 /\ gyroListeners' <= 1
     /\ mlAccelListeners' <= 1 /\ mlGyroListeners' <= 1
     /\ (~accelSub' /\ ~gyroSub') => (accelListeners' = 0 /\ gyroListeners' = 0)
     /\ (~mlAccelSub' /\ ~mlGyroSub') => (mlAccelListeners' = 0 /\ mlGyroListeners' = 0)
     /\ (stopSensors \/ saveExample \/ stopAndClassify) => (~accelSub' /\ ~gyroSub')
     /\ (MlStopSensors \/ saveGestureExample \/ predictGesture \/ predictGestureBaseline)
          => (~mlAccelSub' /\ ~mlGyroSub')
     /\ Len(bufferRef') > Len(bufferRef) => (accelSub /\ accelListeners = 1)
     /\ Len(mlBufferRef') > Len(mlBufferRef) => (mlAccelSub /\ mlAccelListeners = 1)]_vars

\* the recorder has stopped over a full buffer while the ML screen records
Wit_C28 ==
  /\ ~accelSub /\ accelListeners = 0 /\ gyroListeners = 0
  /\ Len(bufferRef) = MaxBuf
  /\ mlAccelSub /\ mlAccelListeners = 1 /\ mlGyroListeners = 1
  /\ Len(mlBufferRef) = MaxMlBuf

\* ------------------------------------ the optimize manager (optimize-manager.ts)
\* on Android, with the usage service available
MaxRunChecks == 2        \* calls of runCheck that may wait at an await
MaxClock == 30           \* the minute after which the clock stands still
MaxNotified == 2         \* notifications after which no more is issued
ClockStep == 5           \* the minutes that pass in one step of the clock
MaxPerAppThresholdMB == 6
MaxTotalThresholdMB == 30

\* what getNetworkSummary answers: nothing, or one app that is over every
\* reachable threshold and was last used three hours ago
UsageAnswers ==
  { <<>>,
    << [packageName |-> "com.video", mb |-> 40, hoursSinceUsed |-> 3],
       [packageName |-> "com.mail", mb |-> 2, hoursSinceUsed |-> 0] >> }

LookbackChoices == {1, 5}    \* the minutes offered by the screen
PerAppDeltas == {-5, 5}
TotalDeltas == {-25, 25}

OptOther == UNCHANGED <<fnVars, recorderVars, mlVars, songVars>>

RECURSIVE SumMb(_, _)
\* summary.reduce((sum, item) => sum + item.mb, 0)
SumMb(summary, i) == IF i > Len(summary) THEN 0 ELSE summary[i].mb + SumMb(summary, i + 1)

RECURSIVE OffendersOf(_, _, _)
\* summary.filter((s) => s.mb >= state.perAppThresholdMB && s.hoursSinceUsed >= 2)
OffendersOf(summary, perApp, i) ==
  IF i > Len(summary) THEN <<>>
  ELSE (IF summary[i].mb >= perApp /\ summary[i].hoursSinceUsed >= 2
        THEN <<summary[i]>> ELSE <<>>) \o OffendersOf(summary, perApp, i + 1)

\* runCheck up to its first await, called with the state st: the calls that
\* wait afterwards
RunCheckBegun(st) ==
  IF ~st.enabled THEN runChecks
  ELSE Append(runChecks, [pc |-> "hasUsageAccess"])

MayRunCheck == Len(runChecks) < MaxRunChecks

Without(calls, i) == SubSeq(calls, 1, i - 1) \o SubSeq(calls, i + 1, Len(calls))

\* start(): both awaits have answered; a session starts when no check is
\* waiting
OptStart ==
  /\ ~optState.enabled
  /\ runChecks = <<>>
  /\ lastNotificationTs' = 0
  /\ notified' = <<>>
  /\ optState' = [optState EXCEPT !.svcAvailable = TRUE, !.hasUsageAccess = TRUE,
                                  !.enabled = TRUE, !.summary = <<>>,
                                  !.offenders = <<>>, !.totalMB = 0]
  /\ pollTimer' = TRUE
  /\ runChecks' = RunCheckBegun(optState')
  /\ UNCHANGED clock
  /\ OptOther

OptStop ==
  /\ optState.enabled
  /\ pollTimer' = FALSE
  /\ optState' = [optState EXCEPT !.enabled = FALSE]
  /\ UNCHANGED <<lastNotificationTs, clock, runChecks, notified>>
  /\ OptOther

\* the interval of schedule() fires: setInterval(runCheck, 60_000)
PollTick ==
  /\ pollTimer
  /\ optState.enabled => MayRunCheck
  /\ runChecks' = RunCheckBegun(optState)
  /\ UNCHANGED <<optState, pollTimer, lastNotificationTs, clock, notified>>
  /\ OptOther

setLookbackMinutes ==
  \E minutes \in LookbackChoices :
    /\ optState.enabled => MayRunCheck
    /\ optState' = [optState EXCEPT !.lookbackMinutes = minutes]
    /\ runChecks' = RunCheckBegun(optState')
    /\ UNCHANGED <<pollTimer, lastNotificationTs, clock, notified>>
    /\ OptOther

adjustPerAppThreshold ==
  \E delta \in PerAppDeltas :
    /\ optState.enabled => MayRunCheck
    /\ optState.perAppThresholdMB + delta <= MaxPerAppThresholdMB
    /\ optState' = [optState EXCEPT
                      !.perAppThresholdMB = IF @ + delta > 1 THEN @ + delta ELSE 1]
    /\ runChecks' = RunCheckBegun(optState')
    /\ UNCHANGED <<pollTimer, lastNotificationTs, clock, notified>>
    /\ OptOther

adjustTotalThreshold ==
  \E delta \in TotalDeltas :
    /\ optState.enabled => MayRunCheck
    /\ optState.totalThresholdMB + delta <= MaxTotalThresholdMB
    /\ optState' = [optState EXCEPT
                      !.totalThresholdMB = IF @ + delta > 5 THEN @ + delta ELSE 5]
    /\ runChecks' = RunCheckBegun(optState')
    /\ UNCHANGED <<pollTimer, lastNotificationTs, clock, notified>>
    /\ OptOther

\* UsageMonitor.hasUsageAccess() has answered
RunCheckAccess ==
  \E i \in 1..Len(runChecks), access \in BOOLEAN :
    /\ runChecks[i].pc = "hasUsageAccess"
    /\ IF access
       THEN /\ optState' = [optState EXCEPT !.hasUsageAccess = TRUE]
            /\ runChecks' = [runChecks EXCEPT ![i] = [pc |-> "getNetworkSummary"]]
       ELSE /\ optState' = [optState EXCEPT !.hasUsageAccess = FALSE, !.summary = <<>>,
                                            !.offenders = <<>>, !.totalMB = 0]
            /\ runChecks' = Without(runChecks, i)
    /\ UNCHANGED <<pollTimer, lastNotificationTs, clock, notified>>
    /\ OptOther

\* UsageMonitor.getNetworkSummary() has answered: the rest of runCheck, and
\* notifyOffenders up to its first await
RunCheckUsage ==
  \E i \in 1..Len(runChecks), usage \in UsageAnswers :
    /\ runChecks[i].pc = "getNetworkSummary"
    /\ LET offenders == OffendersOf(usage, optState.perAppThresholdMB, 1)
           totalMB == SumMb(usage, 1)
           now == clock
       IN IF Len(usage) = 0
          THEN /\ optState' = [optState EXCEPT !.summary = <<>>, !.offenders = <<>>,
                                               !.totalMB = 0]
               /\ runChecks' = Without(runChecks, i)
          ELSE /\ optState' = [optState EXCEPT !.summary = usage,
                                               !.offenders = offenders,
                                               !.totalMB = totalMB]
               /\ runChecks' =
                    IF /\ totalMB >= optState.totalThresholdMB
                       /\ Len(offenders) # 0
                       /\ optState.hasUsageAccess
                       /\ ~(now - lastNotificationTs < NOTIFY_COOLDOWN)
                    THEN [runChecks EXCEPT ![i] = [pc |-> "loadNotifications", now |-> now]]
                    ELSE Without(runChecks, i)
    /\ UNCHANGED <<pollTimer, lastNotificationTs, clock, notified>>
    /\ OptOther

\* loadNotifications() has answered: the notification is scheduled, or the
\* alert shown, and lastNotificationTs = now
NotifyDone ==
  \E i \in 1..Len(runChecks) :
    /\ runChecks[i].pc = "loadNotifications"
    /\ Len(notified) < MaxNotified
    /\ notified' = Append(notified, runChecks[i].now)
    /\ lastNotificationTs' = runChecks[i].now
    /\ runChecks' = Without(runChecks, i)
    /\ UNCHANGED <<optState, pollTimer, clock>>
    /\ OptOther

\* time passes; the interval of schedule() fires several times in one step
ClockTick ==
  /\ clock + ClockStep <= MaxClock
  /\ clock' = clock + ClockStep
  /\ UNCHANGED <<optState, pollTimer, lastNotificationTs, runChecks, notified>>
  /\ OptOther

InitOptimize ==
  /\ fn = "optimize-manager" /\ arg = <<>> /\ ret = 0
  /\ ScreensIdle

NextOptimize ==
  \/ OptStart \/ OptStop \/ PollTick
  \/ setLookbackMinutes \/ adjustPerAppThreshold \/ adjustTotalThreshold
  \/ RunCheckAccess \/ RunCheckUsage \/ NotifyDone
  \/ ClockTick

SpecOptimize == InitOptimize /\ [][NextOptimize]_vars

\* C29: within one enabled session any two offender notifications are at
\* least NOTIFY_COOLDOWN apart, however the poll's runCheck and the runCheck
\* calls of setLookbackMinutes, adjustPerAppThreshold and adjustTotalThreshold
\* interleave.
Orig_C29 ==
  \A i, j \in 1..Len(notified) :
     i < j => notified[j] - notified[i] >= NOTIFY_COOLDOWN

\* ------------------------------------------- the song screen (song.tsx)
MaxSongCalls == 2        \* calls that may wait at an await

SongOther == UNCHANGED <<fnVars, recorderVars, mlVars, optVars>>

\* startListening up to its first await.  The guard's return is inside the
\* try block, so the finally block runs for a rejected call as well.
StartListeningCall ==
  /\ IF busyRef \/ preparing \/ listening
     THEN /\ preparing' = FALSE
          /\ busyRef' = FALSE
          /\ UNCHANGED songCalls
     ELSE /\ Len(songCalls) < MaxSongCalls
          /\ busyRef' = TRUE
          /\ preparing' = TRUE
          /\ songCalls' = Append(songCalls, [fn |-> "startListening", pc |-> "getAudio"])
  /\ UNCHANGED <<listening, recordingRef, autoTimerRef>>

\* an await of startListening has answered, well (ok) or not; a call that
\* ends runs the finally block
StartListeningStep ==
  \E i \in 1..Len(songCalls), ok \in BOOLEAN :
    LET pc == songCalls[i].pc
        ends == ~ok \/ pc = "createAsync"
        next == IF pc = "getAudio" THEN "requestPermissionsAsync"
                ELSE IF pc = "requestPermissionsAsync" THEN "cleanupRecordingSafe"
                ELSE "createAsync"
    IN /\ songCalls[i].fn = "startListening"
       /\ pc = "cleanupRecordingSafe" => ok
       /\ songCalls' = IF ends THEN Without(songCalls, i)
                       ELSE [songCalls EXCEPT ![i].pc = next]
       /\ recordingRef' = IF pc = "cleanupRecordingSafe" THEN FALSE
                          ELSE IF pc = "createAsync" /\ ok THEN TRUE ELSE recordingRef
       /\ listening' = IF pc = "createAsync" THEN ok ELSE listening
       /\ autoTimerRef' = IF pc = "createAsync" /\ ok THEN TRUE ELSE autoTimerRef
       /\ preparing' = IF ends THEN FALSE ELSE preparing
       /\ busyRef' = IF ends THEN FALSE ELSE busyRef

\* stopAndPredict up to its first await; a rejected call and a call without a
\* recording run the finally block at once
StopAndPredictCall ==
  IF busyRef
  THEN /\ listening' = FALSE
       /\ busyRef' = FALSE
       /\ UNCHANGED <<preparing, recordingRef, autoTimerRef, songCalls>>
  ELSE IF ~recordingRef
  THEN /\ autoTimerRef' = FALSE
       /\ listening' = FALSE
       /\ busyRef' = FALSE
       /\ UNCHANGED <<preparing, recordingRef, songCalls>>
  ELSE /\ Len(songCalls) < MaxSongCalls
       /\ busyRef' = TRUE
       /\ autoTimerRef' = FALSE
       /\ songCalls' = Append(songCalls, [fn |-> "stopAndPredict", pc |-> "getAudio"])
       /\ UNCHANGED <<preparing, listening, recordingRef>>

\* an await of stopAndPredict has answered, well (ok) or not; a call that
\* ends runs the finally block
StopAndPredictStep ==
  \E i \in 1..Len(songCalls), ok \in BOOLEAN :
    LET pc == songCalls[i].pc
        ends == ~ok \/ pc = "recognize"
        next == IF pc = "getAudio" THEN "stopAndUnloadAsync" ELSE "recognize"
    IN /\ songCalls[i].fn = "stopAndPredict"
       /\ songCalls' = IF ends THEN Without(songCalls, i)
                       ELSE [songCalls EXCEPT ![i].pc = next]
       /\ recordingRef' = IF pc = "stopAndUnloadAsync" /\ ok THEN FALSE ELSE recordingRef
       /\ listening' = IF ends \/ pc = "stopAndUnloadAsync" THEN FALSE ELSE listening
       /\ busyRef' = IF ends THEN FALSE ELSE busyRef
       /\ UNCHANGED <<preparing, autoTimerRef>>

\* the big button: onPress = listening ? stopAndPredict : startListening
PressListen ==
  /\ IF listening THEN StopAndPredictCall ELSE StartListeningCall
  /\ SongOther

\* the timeout of autoTimerRef fires: stopAndPredict()
AutoStop ==
  /\ autoTimerRef
  /\ IF busyRef
     THEN /\ listening' = FALSE
          /\ busyRef' = FALSE
          /\ autoTimerRef' = FALSE
          /\ UNCHANGED <<preparing, recordingRef, songCalls>>
     ELSE StopAndPredictCall
  /\ SongOther

InitSong ==
  /\ fn = "SongScreen" /\ arg = <<>> /\ ret = 0
  /\ ScreensIdle

NextSong ==
  \/ PressListen
  \/ AutoStop
  \/ (StartListeningStep /\ SongOther)
  \/ (StopAndPredictStep /\ SongOther)

SpecSong == InitSong /\ [][NextSong]_vars

\* C30: while a call of startListening or stopAndPredict holds the busy flag,
\* no other call of either function gets past its guard, and no call that the
\* guard rejected clears the flag: at most one call is under way, and the flag
\* is set while it is.
Orig_C30 ==
  /\ Len(songCalls) <= 1
  /\ Len(songCalls) = 1 => busyRef

=============================================================================
